---- MODULE Spec2Model ----
(***************************************************************************)
(* A model of udig, the recursive domain-reconnaissance engine.            *)
(*                                                                         *)
(* A string is modelled by its sequence of dot-separated labels, so that   *)
(* "all.tens.ten" is <<"all", "tens", "ten">> and the fully qualified      *)
(* "all.tens.ten." is <<"all", "tens", "ten", "">>.  IP addresses are      *)
(* strings of the same kind (their dotted groups).                         *)
(***************************************************************************)
EXTENDS Integers, Sequences, FiniteSets, Bags, TLC

(***************************************************************************)
(* Bounds of the model and the values the inputs are drawn from.           *)
(***************************************************************************)
\* Longest list of domains a stub prober's Domains() returns.
MaxDomains == 1

Ten == <<"all", "tens", "ten">>
Sub == <<"sub", "tens", "ten">>
Deep == <<"deep", "all", "tens", "ten">>
Alt == <<"tens", "net">>
Far == <<"all", "twenties", "twenty">>
FarDot == <<"all", "twenties", "twenty", "">>
\* A fully qualified name as a zone file may spell it: DNS names keep the
\* case they were entered in.
Shout == <<"WWW", "tens", "ten", "">>
IPa == <<"10", "10", "10", "10">>
IPb == <<"20", "20", "20", "20">>

Seeds == {Ten}
\* Strings a stub prober may report as discovered domains.
Universe == {Ten, Sub, Alt, Far}
\* Targets as they occur in CNAME records (plain and fully qualified).
RawTargets == {Sub, Far, FarDot, Shout}

\* The registries a session is run with (AddDomainResolver/AddIPResolver
\* before Resolve).  "DNS" is the built-in DNS resolver, "HTTP" a resolver
\* reporting arbitrary domains, "STUB" one reporting the same related domain
\* for every query, "BULK" one reporting a long list of IPs.
DomainRegistries ==
  {<<>>, <<"HTTP">>, <<"DNS">>, <<"DNS", "STUB">>, <<"STUB", "STUB">>, <<"BULK">>}
IPRegistries == {<<"BGP">>, <<"BGP", "GEO">>}
\* The same with "PTR", an IP resolver whose results report hostnames.
EngineIPRegistries == IPRegistries \cup {<<"PTR">>}

(***************************************************************************)
(* utils: domain normalisation and the relatedness heuristic.              *)
(***************************************************************************)
ToLowerLabel(l) ==
  CASE l = "WWW" -> "www"
    [] l = "Tens" -> "tens"
    [] OTHER -> l

TrimSuffixDot(s) ==
  IF Len(s) >= 2 /\ s[Len(s)] = "" THEN SubSeq(s, 1, Len(s) - 1) ELSE s

TrimPrefixLabel(s, l) ==
  IF Len(s) >= 2 /\ s[1] = l THEN Tail(s) ELSE s

cleanDomain(domain) ==
  LET a == TrimSuffixDot(domain)
      b == TrimPrefixLabel(a, "*")
      c == TrimPrefixLabel(b, "www")
  IN  [i \in 1..Len(c) |-> ToLowerLabel(c[i])]

\* dns.SplitDomainName: the labels of a name, nil for "" and for the root.
SplitDomainName(s) ==
  IF s = <<"">> \/ s = <<"", "">> THEN <<>> ELSE TrimSuffixDot(s)

\* Mutant: the labels compared are the last ones.
isDomainRelated_lastLabels(domainA, domainB, strictMode) ==
  LET labelsA == SplitDomainName(domainA)
      labelsB == SplitDomainName(domainB)
  IN  /\ Len(labelsA) >= 2
      /\ Len(labelsB) >= 2
      /\ labelsA[Len(labelsA)] = labelsB[Len(labelsB)]

\* Mutant: the second-order label of one is compared with the top-level
\* label of the other.
isDomainRelated_oneSided(domainA, domainB, strictMode) ==
  LET labelsA == SplitDomainName(domainA)
      labelsB == SplitDomainName(domainB)
  IN  /\ Len(labelsA) >= 2
      /\ Len(labelsB) >= 2
      /\ labelsA[Len(labelsA) - 1] = labelsB[Len(labelsB)]

isDomainRelated(domainA, domainB, strictMode) ==
  LET labelsA == SplitDomainName(domainA)
      labelsB == SplitDomainName(domainB)
      labelsALen == Len(labelsA)
      labelsBLen == Len(labelsB)
  IN  IF labelsA = <<>> \/ labelsB = <<>> THEN FALSE
      ELSE IF labelsALen < 2 \/ labelsBLen < 2 THEN FALSE
      ELSE LET related == labelsA[labelsALen - 1] = labelsB[labelsBLen - 1]
           IN  IF related /\ strictMode
                 THEN labelsA[labelsALen] = labelsB[labelsBLen]
                 ELSE related

DefaultDomainRelation(domainA, domainB) == isDomainRelated(domainA, domainB, FALSE)
StrictDomainRelation(domainA, domainB) == isDomainRelated(domainA, domainB, TRUE)

(***************************************************************************)
(* Resolutions.  A resolution is a record                                  *)
(*   [type, query, Records, domains, ips]                                  *)
(* where Records are the resource records of a DNS resolution and domains, *)
(* ips what any other resolution reports.                                  *)
(***************************************************************************)
CNAME(target) == [rrtype |-> "CNAME", target |-> target]
ARecord(ip) == [rrtype |-> "A", target |-> ip]

dissectDomainsFromRecord(record) ==
  IF record.rrtype \in {"NS", "CNAME", "SOA", "MX", "RRSIG", "NSEC", "KX"}
    THEN <<cleanDomain(record.target)>>
    ELSE <<>>

dissectIPsFromRecord(record) ==
  IF record.rrtype = "A" THEN <<record.target>> ELSE <<>>

RECURSIVE FlatMap(_, _)
FlatMap(Op(_), s) ==
  IF s = <<>> THEN <<>> ELSE Op(Head(s)) \o FlatMap(Op, Tail(s))

Domains(res) ==
  IF res.goType = "*DNSResolution"
    THEN FlatMap(dissectDomainsFromRecord, res.Records)
  ELSE res.domains

IPs(res) ==
  IF res.goType = "*DNSResolution"
    THEN FlatMap(dissectIPsFromRecord, res.Records)
  ELSE res.ips

(***************************************************************************)
(* What the resolvers may answer.  The answer to a call is chosen when the *)
(* call is made: a resolver is any function of the network.                *)
(***************************************************************************)
\* Capacity of domainQueue and ipQueue, and of a resolutionChannel.
QueueCap == 1024

SeqsUpTo(S, n) == UNION {[1..k -> S] : k \in 0..n}

\* The Go type of the resolution a built-in resolver returns: what Type()
\* says for a DNSResolution; the other types are not told apart.
GoTypeOf(type) == IF type = "DNS" THEN "*DNSResolution" ELSE "*Resolution"

\* Mutant: the prober reports a query other than the string it was given.
Resolution_otherQuery(type, query, records, domains, ips) ==
  [type |-> type, query |-> <<"www">> \o query, Records |-> records,
   domains |-> domains, ips |-> ips, goType |-> GoTypeOf(type)]

Resolution(type, query, records, domains, ips) ==
  [type |-> type, query |-> query, Records |-> records,
   domains |-> domains, ips |-> ips, goType |-> GoTypeOf(type)]

\* A resolution of a type of the caller's own, whose Type() returns typ.
stubResolution(query, typ, domains) ==
  [type |-> typ, query |-> query, Records |-> <<>>, domains |-> domains,
   ips |-> <<>>, goType |-> "*stubResolution"]

AddrOf(domain) == IF domain = Far THEN IPb ELSE IPa

DomainResults(kind, domain) ==
  CASE kind = "DNS" ->
         {Resolution("DNS", domain, c \o <<ARecord(AddrOf(domain))>>, <<>>, <<>>) :
            c \in {<<>>} \cup {<<CNAME(t)>> : t \in RawTargets}}
    [] kind = "HTTP" ->
         {Resolution("HTTP", domain, <<>>, ds, <<>>) :
            ds \in SeqsUpTo(Universe, MaxDomains)}
    [] kind = "STUB" ->
         {Resolution("HTTP", domain, <<>>, <<Sub>>, <<>>)}
    [] kind = "MASK" ->
         {stubResolution(domain, "DNS", ds) : ds \in {<<>>, <<Sub>>}}
    [] kind = "BULK" ->
         {Resolution("HTTP", domain, <<>>, <<>>, [i \in 1..(QueueCap + 1) |-> IPa])}

\* Hostnames a PTR resolution may report: none, or one that is related to
\* the seed and that no domain resolver reports.
PtrHostnames == {<<>>, <<Deep>>}

IPResults(kind, ip) ==
  IF kind = "PTR"
    THEN {Resolution("PTR", ip, <<>>, hosts, <<>>) : hosts \in PtrHostnames}
    ELSE {Resolution(kind, ip, <<>>, <<>>, <<>>)}

(***************************************************************************)
(* The engine (udigImpl).                                                  *)
(***************************************************************************)
VARIABLES
  domainResolvers,    \* registered domain resolvers, in registration order
  ipResolvers,        \* registered IP resolvers
  strict,             \* TRUE iff IsDomainRelated is StrictDomainRelation
  domainQueue,        \* chan string, capacity QueueCap
  ipQueue,            \* chan string, capacity QueueCap
  processed,          \* map[string]bool, as the set of its keys
  seen,               \* map[string]bool, as the set of its keys
  pc,                 \* where the goroutine running Resolve stands
  query,              \* the domain or IP polled from the queue
  wg,                 \* the resolver goroutines that have not called Done
  resolutionChannel,  \* the channel the resolver goroutines write to
  pending,            \* strings enqueueDomains/enqueueIps has yet to send
  resolutions,        \* the resolutions gathered so far (Resolve's result)
  calls,              \* history: bag of <<registry, index, query>> calls made
  enqueued,           \* history: strings sent on domainQueue, in order
  \* The streaming session, Resolve(ctx, domain) <-chan Resolution:
  maxDepth,           \* WithMaxDepth: -1 unlimited, 0 seed only
  cancelled,          \* ctx is cancelled
  domainWork,         \* queue of [name, depth] entries for domain probers
  ipWork,             \* queue of [name, depth] entries for IP probers
  seenSet,            \* every domain ever enqueued
  processedSet,       \* every query popped and probed
  driver,             \* where the driver task stands
  popped,             \* the entry the driver popped last
  inFlight,           \* probers of the current pop that have not finished
  output,             \* every result sent on the output channel, in order
  received,           \* how many of them the consumer has read
  closeCount,         \* how many times the output channel was closed
  lateSends,          \* sends on the output channel after its close
  probes,             \* history: [name, depth, from] of every entry probed
  atCancel,           \* history: what was pending when ctx was cancelled
  \* One call of PTRResolver.ResolveIP:
  ptrPc,              \* where the call stands
  ptrIp,              \* its argument
  ptrReply,           \* what queryOneCallback returned
  ptrAnswers,         \* the records of msg.Answer not yet visited
  ptrResolution,      \* the PTRResolution under construction
  ptrReturned,        \* the resolutions the call has returned
  \* Resolve called again on the same udigImpl:
  earlier,            \* what the earlier calls were for and returned
  \* Calls of the functions of utils:
  argA,               \* a string the functions are applied to
  argB,               \* the second string isDomainRelated is applied to
  relatedResult,      \* what isDomainRelated returned
  cleanResult,        \* what cleanDomain returned
  \* A DNSResolver and the calls of its findNameServerFor:
  NameServer,         \* resolver.NameServer, "" unless the user supplied one
  nameServerCache,    \* resolver.nameServerCache
  lookup,             \* the last call: argument, result, NS queries issued
  firstReturn,        \* history: what the first call for a domain returned
  \* The probers, each taken on its own:
  dnsCall,            \* one call of DNSResolver.ResolveDomain
  whoisCall,          \* one run of the WHOIS parser
  httpCall,           \* one HTTPResolution and its Domains()
  ctCall,             \* a CTResolver: its cache and its last call
  bgpCall,            \* a BGPResolver: its cache and its last call
  geoCall,            \* a GeoResolver and its last call
  \* Goroutines calling ResolveIP of one BGPResolver at the same time:
  concurrent          \* the resolver's cache and where each call stands

config == <<domainResolvers, ipResolvers, strict, maxDepth>>

engine == <<domainQueue, ipQueue, processed, seen, pc, query, wg,
            resolutionChannel, pending, resolutions, calls, enqueued>>

stream == <<cancelled, domainWork, ipWork, seenSet, processedSet, driver,
            popped, inFlight, output, received, closeCount, lateSends,
            probes, atCancel>>

ptrCall == <<ptrPc, ptrIp, ptrReply, ptrAnswers, ptrResolution, ptrReturned>>

utilCalls == <<argA, argB, relatedResult, cleanResult>>

nsCalls == <<NameServer, nameServerCache, lookup, firstReturn>>

standalone == <<dnsCall, whoisCall, httpCall, ctCall, bgpCall, geoCall>>

\* What a crawl leaves alone.
apart == <<ptrCall, earlier, utilCalls, nsCalls, standalone, concurrent>>

\* What a call of PTRResolver.ResolveIP leaves alone.
besidePtr == <<config, engine, stream, earlier, utilCalls, nsCalls,
               standalone, concurrent>>

\* What a call of a function of utils leaves alone.
besideUtil == <<domainResolvers, ipResolvers, maxDepth, engine, stream,
                ptrCall, earlier, nsCalls, standalone, concurrent>>

\* What a call of DNSResolver.findNameServerFor leaves alone.
besideNs == <<config, engine, stream, ptrCall, earlier, utilCalls,
              standalone, concurrent>>

\* What the probers taken on their own leave alone.
besideProbers == <<config, engine, stream, ptrCall, earlier, utilCalls,
                   nsCalls, concurrent>>

\* What the goroutines sharing a BGPResolver leave alone.
besideConcurrent == <<config, engine, stream, ptrCall, earlier, utilCalls,
                      nsCalls, standalone>>

vars == <<config, engine, stream, apart>>

NoQuery == <<>>

\* The string "".
EmptyString == <<"">>

\* The domains findNameServerFor is called for, and their parents.
NsDomains == {Deep, Ten, Sub, <<"tens", "ten">>}

\* An empty map[string]string: every key reads as "".
EmptyMap == [name \in NsDomains |-> EmptyString]

NoCancel == [received |-> 0, pending |-> 0, before |-> FALSE]

\* The fields of a new udigImpl.
EngineNew ==
  /\ domainQueue = <<>>
  /\ ipQueue = <<>>
  /\ processed = {}
  /\ seen = {}
  /\ pc = "new"
  /\ query = NoQuery
  /\ wg = {}
  /\ resolutionChannel = <<>>
  /\ pending = <<>>
  /\ resolutions = <<>>
  /\ calls = EmptyBag
  /\ enqueued = <<>>

\* No streaming session started.
StreamNew ==
  /\ cancelled = FALSE
  /\ domainWork = <<>>
  /\ ipWork = <<>>
  /\ seenSet = {}
  /\ processedSet = {}
  /\ driver = "new"
  /\ popped = NoQuery
  /\ inFlight = {}
  /\ output = <<>>
  /\ received = 0
  /\ closeCount = 0
  /\ lateSends = 0
  /\ probes = {}
  /\ atCancel = NoCancel

\* No call of PTRResolver.ResolveIP made.
PtrNew ==
  /\ ptrPc = "idle"
  /\ ptrIp = NoQuery
  /\ ptrReply = NoQuery
  /\ ptrAnswers = <<>>
  /\ ptrResolution = NoQuery
  /\ ptrReturned = <<>>

\* No function of utils called.
UtilNew ==
  /\ argA = NoQuery
  /\ argB = NoQuery
  /\ relatedResult = NoQuery
  /\ cleanResult = NoQuery

\* NewDNSResolver, findNameServerFor not called.
NsNew ==
  /\ NameServer = EmptyString
  /\ nameServerCache = EmptyMap
  /\ lookup = NoQuery
  /\ firstReturn = EmptyMap

\* No goroutine has called the shared resolver.
ConcurrentNew == concurrent = NoQuery

\* No prober taken on its own.
StandaloneNew ==
  /\ dnsCall = NoQuery
  /\ whoisCall = NoQuery
  /\ httpCall = NoQuery
  /\ ctCall = NoQuery
  /\ bgpCall = NoQuery
  /\ geoCall = NoQuery

\* Nothing but the engine has run.
ApartNew ==
  /\ PtrNew
  /\ earlier = <<>>
  /\ UtilNew
  /\ NsNew
  /\ StandaloneNew
  /\ ConcurrentNew

\* NewUdig/NewEmptyUdig followed by the registration of the resolvers.
Init ==
  /\ domainResolvers \in DomainRegistries
  /\ ipResolvers \in EngineIPRegistries
  /\ strict \in BOOLEAN
  /\ maxDepth = -1
  /\ EngineNew
  /\ StreamNew
  /\ ApartNew

\* Mutant: the processed check is dropped.
isProcessed_never(q) == FALSE

isProcessed(q) == q \in processed
isSeen(q) == q \in seen

IsDomainRelated(domainA, domainB) ==
  IF strict THEN StrictDomainRelation(domainA, domainB)
  ELSE DefaultDomainRelation(domainA, domainB)

\* resolution.(*DNSResolution) under case TypeDNS: the assertion has no
\* ", ok" form, so it panics when the resolution is of another Go type.
assertionPanics(resolution) ==
  resolution.type = "DNS" /\ resolution.goType # "*DNSResolution"

\* Mutant: every discovered domain is taken for a crawl target.
isCnameOrRelated_always(nextDomain, resolution) == TRUE

isCnameOrRelated(nextDomain, resolution) ==
  IF /\ resolution.type = "DNS"
     /\ \E i \in 1..Len(resolution.Records) :
          /\ resolution.Records[i].rrtype = "CNAME"
          /\ resolution.Records[i].target = nextDomain
    THEN TRUE
    ELSE IsDomainRelated(nextDomain, resolution.query)

\* The pairs <<resolution, domain>> getRelatedDomains iterates over.
RECURSIVE Discoveries(_)
Discoveries(rs) ==
  IF rs = <<>> THEN <<>>
  ELSE LET r == Head(rs)
           ds == Domains(r)
       IN  [i \in 1..Len(ds) |-> [resolution |-> r, nextDomain |-> ds[i]]]
           \o Discoveries(Tail(rs))

\* getRelatedDomains: the domains to crawl and the seen set it leaves, or
\* the panic of isCnameOrRelated that ends it.
\* Run after the deferred addProcessed of the polled domain (processedNow).
RECURSIVE relatedAmong(_, _, _, _)
relatedAmong(found, processedNow, seenSoFar, domains) ==
  IF found = <<>>
    THEN [domains |-> domains, seen |-> seenSoFar, panicked |-> FALSE]
  ELSE LET f == Head(found)
       IN  IF f.nextDomain \in processedNow \/ f.nextDomain \in seenSoFar
             THEN relatedAmong(Tail(found), processedNow, seenSoFar, domains)
           ELSE IF assertionPanics(f.resolution)
             THEN [domains |-> domains, seen |-> seenSoFar \cup {f.nextDomain},
                   panicked |-> TRUE]
           ELSE IF ~isCnameOrRelated(f.nextDomain, f.resolution)
             THEN relatedAmong(Tail(found), processedNow,
                               seenSoFar \cup {f.nextDomain}, domains)
           ELSE relatedAmong(Tail(found), processedNow,
                             seenSoFar \cup {f.nextDomain},
                             Append(domains, f.nextDomain))

\* Mutant: every discovery is checked against seen before any is inserted,
\* as tasks racing on the map would do.
getRelatedDomains_checkThenInsert(newResolutions, processedNow, seenNow) ==
  LET fresh == SelectSeq(Discoveries(newResolutions),
                         LAMBDA f : /\ f.nextDomain \notin processedNow
                                    /\ f.nextDomain \notin seenNow)
      taken == SelectSeq(fresh,
                 LAMBDA f : isCnameOrRelated(f.nextDomain, f.resolution))
  IN  [domains |-> [i \in 1..Len(taken) |-> taken[i].nextDomain],
       seen |-> seenNow \cup {fresh[i].nextDomain : i \in 1..Len(fresh)},
       panicked |-> FALSE]

getRelatedDomains(newResolutions, processedNow, seenNow) ==
  relatedAmong(Discoveries(newResolutions), processedNow, seenNow, <<>>)

\* Mutant: the loop that empties resolutionChannel stops one short.
drain_oneShort(channel) ==
  IF channel = <<>> THEN channel ELSE SubSeq(channel, 1, Len(channel) - 1)

\* for len(resolutionChannel) > 0 { append(resolutions, <-resolutionChannel) }
drain(channel) == channel

Called(registry, i, q) == calls (+) SetToBag({<<registry, i, q>>})

\* Resolve(domain): the seed is sent on domainQueue.
Resolve ==
  /\ pc = "new"
  /\ \E domain \in Seeds :
       /\ Len(domainQueue) < QueueCap
       /\ domainQueue' = Append(domainQueue, domain)
       /\ enqueued' = Append(enqueued, domain)
  /\ pc' = "resolveDomains"
  /\ UNCHANGED <<config, apart, stream, ipQueue, processed, seen, query, wg,
                 resolutionChannel, pending, resolutions, calls>>

\* resolveDomains polls a domain; resolveOneDomain returns at once if it is
\* processed, and otherwise starts one goroutine per domain resolver.
PollDomain ==
  /\ pc = "resolveDomains"
  /\ Len(domainQueue) > 0
  /\ domainQueue' = Tail(domainQueue)
  /\ IF isProcessed(Head(domainQueue))
       THEN UNCHANGED <<pc, query, wg>>
       ELSE /\ pc' = "waitDomain"
            /\ query' = Head(domainQueue)
            /\ wg' = 1..Len(domainResolvers)
  /\ resolutionChannel' = <<>>
  /\ UNCHANGED <<config, apart, stream, ipQueue, processed, seen, pending, resolutions,
                 calls, enqueued>>

\* A goroutine of resolveOneDomain: the resolver answers, the answer is
\* sent on resolutionChannel, wg.Done().
ResolveDomain(i) ==
  /\ pc = "waitDomain"
  /\ i \in wg
  /\ Len(resolutionChannel) < QueueCap
  /\ \E resolution \in DomainResults(domainResolvers[i], query) :
       resolutionChannel' = Append(resolutionChannel, resolution)
  /\ wg' = wg \ {i}
  /\ calls' = Called("domain", i, query)
  /\ UNCHANGED <<config, apart, stream, domainQueue, ipQueue, processed, seen, pc, query,
                 pending, resolutions, enqueued>>

\* wg.Wait() returns: resolveOneDomain drains resolutionChannel and marks
\* the domain processed; resolveDomains stores the resolutions and computes
\* the related domains to enqueue.  A panic of isCnameOrRelated unwinds the
\* goroutine that called Resolve.
JoinDomain ==
  /\ pc = "waitDomain"
  /\ wg = {}
  /\ LET newResolutions == drain(resolutionChannel)
         related == getRelatedDomains(newResolutions,
                                      processed \cup {query}, seen)
     IN  /\ resolutions' = resolutions \o newResolutions
         /\ processed' = processed \cup {query}
         /\ seen' = related.seen
         /\ pending' = IF related.panicked THEN <<>> ELSE related.domains
         /\ pc' = IF related.panicked THEN "panicked"
                  ELSE IF related.domains = <<>> THEN "resolveDomains"
                  ELSE "enqueueDomains"
  /\ resolutionChannel' = <<>>
  /\ query' = NoQuery
  /\ UNCHANGED <<config, apart, stream, domainQueue, ipQueue, wg, calls, enqueued>>

\* How many of the strings to send a channel of capacity QueueCap takes
\* before the sender blocks.
Room(channel, strings) ==
  IF Len(strings) <= QueueCap - Len(channel) THEN Len(strings)
  ELSE QueueCap - Len(channel)

\* enqueueDomains: the sends on domainQueue, up to the one that blocks.
EnqueueDomain ==
  /\ pc = "enqueueDomains"
  /\ Room(domainQueue, pending) > 0
  /\ LET n == Room(domainQueue, pending)
     IN  /\ domainQueue' = domainQueue \o SubSeq(pending, 1, n)
         /\ enqueued' = enqueued \o SubSeq(pending, 1, n)
         /\ pending' = SubSeq(pending, n + 1, Len(pending))
         /\ pc' = IF n = Len(pending) THEN "resolveDomains" ELSE pc
  /\ UNCHANGED <<config, apart, stream, ipQueue, processed, seen, query, wg,
                 resolutionChannel, resolutions, calls>>

\* resolveDomains returns when domainQueue is empty; Resolve then enqueues
\* the IPs of every resolution.
DomainsResolved ==
  /\ pc = "resolveDomains"
  /\ Len(domainQueue) = 0
  /\ pending' = FlatMap(IPs, resolutions)
  /\ pc' = IF FlatMap(IPs, resolutions) = <<>> THEN "resolveIPs" ELSE "enqueueIps"
  /\ UNCHANGED <<config, apart, stream, domainQueue, ipQueue, processed, seen, query, wg,
                 resolutionChannel, resolutions, calls, enqueued>>

\* enqueueIps: the sends on ipQueue, up to the one that blocks.
EnqueueIp ==
  /\ pc = "enqueueIps"
  /\ Room(ipQueue, pending) > 0
  /\ LET n == Room(ipQueue, pending)
     IN  /\ ipQueue' = ipQueue \o SubSeq(pending, 1, n)
         /\ pending' = SubSeq(pending, n + 1, Len(pending))
         /\ pc' = IF n = Len(pending) THEN "resolveIPs" ELSE pc
  /\ UNCHANGED <<config, apart, stream, domainQueue, processed, seen, query, wg,
                 resolutionChannel, resolutions, calls, enqueued>>

\* resolveIPs polls an IP; resolveOneIP returns at once if it is processed.
PollIP ==
  /\ pc = "resolveIPs"
  /\ Len(ipQueue) > 0
  /\ ipQueue' = Tail(ipQueue)
  /\ IF isProcessed(Head(ipQueue))
       THEN UNCHANGED <<pc, query, wg>>
       ELSE /\ pc' = "waitIP"
            /\ query' = Head(ipQueue)
            /\ wg' = 1..Len(ipResolvers)
  /\ resolutionChannel' = <<>>
  /\ UNCHANGED <<config, apart, stream, domainQueue, processed, seen, pending, resolutions,
                 calls, enqueued>>

\* A goroutine of resolveOneIP.
ResolveIP(i) ==
  /\ pc = "waitIP"
  /\ i \in wg
  /\ Len(resolutionChannel) < QueueCap
  /\ \E resolution \in IPResults(ipResolvers[i], query) :
       resolutionChannel' = Append(resolutionChannel, resolution)
  /\ wg' = wg \ {i}
  /\ calls' = Called("ip", i, query)
  /\ UNCHANGED <<config, apart, stream, domainQueue, ipQueue, processed, seen, pc, query,
                 pending, resolutions, enqueued>>

\* Mutant: the domains of the IP resolutions are sent on domainQueue.
JoinIP_feedsDomains ==
  /\ pc = "waitIP"
  /\ wg = {}
  /\ resolutions' = resolutions \o drain(resolutionChannel)
  /\ processed' = processed \cup {query}
  /\ domainQueue' = domainQueue \o FlatMap(Domains, drain(resolutionChannel))
  /\ enqueued' = enqueued \o FlatMap(Domains, drain(resolutionChannel))
  /\ resolutionChannel' = <<>>
  /\ query' = NoQuery
  /\ pc' = "resolveIPs"
  /\ UNCHANGED <<config, apart, stream, ipQueue, seen, wg, pending, calls>>

\* wg.Wait() returns in resolveOneIP.
JoinIP ==
  /\ pc = "waitIP"
  /\ wg = {}
  /\ resolutions' = resolutions \o drain(resolutionChannel)
  /\ processed' = processed \cup {query}
  /\ resolutionChannel' = <<>>
  /\ query' = NoQuery
  /\ pc' = "resolveIPs"
  /\ UNCHANGED <<config, apart, stream, domainQueue, ipQueue, seen, wg, pending, calls,
                 enqueued>>

\* resolveIPs returns when ipQueue is empty, and Resolve returns.
IPsResolved ==
  /\ pc = "resolveIPs"
  /\ Len(ipQueue) = 0
  /\ pc' = "done"
  /\ UNCHANGED <<config, apart, stream, domainQueue, ipQueue, processed, seen, query, wg,
                 resolutionChannel, pending, resolutions, calls, enqueued>>

Next ==
  \/ Resolve
  \/ PollDomain
  \/ \E i \in 1..Len(domainResolvers) : ResolveDomain(i)
  \/ JoinDomain
  \/ EnqueueDomain
  \/ DomainsResolved
  \/ EnqueueIp
  \/ PollIP
  \/ \E i \in 1..Len(ipResolvers) : ResolveIP(i)
  \/ JoinIP
  \/ IPsResolved

Spec == Init /\ [][Next]_vars

\* The scheduler runs every goroutine that can take a step.
FairSpec == Spec /\ WF_vars(Next)

(***************************************************************************)
(* The streaming session: Resolve(ctx, domain) returns a channel that is   *)
(* closed when the crawl is done or ctx is cancelled.  A driver task pops  *)
(* one queue entry at a time and runs one task per registered prober; a    *)
(* task sends its result on the output channel and feeds the discovered    *)
(* domains and IPs back to the queues.                                     *)
(***************************************************************************)
\* Capacity of the output channel's buffer.
OutCap == 2
\* Largest depth limit a session is run with.
MaxDepthLimit == 1

MaxDepths == {-1} \cup 0..MaxDepthLimit
StreamDomainRegistries == {<<"HTTP">>, <<"DNS">>, <<"STUB", "STUB">>}

StreamInit ==
  /\ domainResolvers \in StreamDomainRegistries
  /\ ipResolvers \in IPRegistries
  /\ strict \in BOOLEAN
  /\ maxDepth \in MaxDepths
  /\ EngineNew
  /\ StreamNew
  /\ ApartNew

\* A queue entry carries its depth; from is the depth of the entry whose
\* result it was discovered in (-1 for the seed).
Entry(kind, name, depth, from) ==
  [kind |-> kind, name |-> name, depth |-> depth, from |-> from]

\* Mutant: the depth bound is off by one.
withinDepth_offByOne(depth) == maxDepth < 0 \/ depth <= maxDepth + 1

withinDepth(depth) == maxDepth < 0 \/ depth <= maxDepth

\* The domain queue and seen set after a task has fed the domains of its
\* resolution, discovered at the given depth.
RECURSIVE feedDomains(_, _, _, _, _)
feedDomains(domains, resolution, depth, queue, seenNow) ==
  IF domains = <<>> THEN [queue |-> queue, seen |-> seenNow]
  ELSE LET d == Head(domains)
       IN  IF /\ d \notin processedSet
              /\ d \notin seenNow
              /\ isCnameOrRelated(d, resolution)
              /\ withinDepth(depth)
             THEN feedDomains(Tail(domains), resolution, depth,
                              Append(queue, Entry("domain", d, depth, depth - 1)),
                              seenNow \cup {d})
             ELSE feedDomains(Tail(domains), resolution, depth, queue, seenNow)

\* The IP queue after a task has fed the IPs of its resolution.
RECURSIVE feedIPs(_, _, _)
feedIPs(ips, depth, queue) ==
  IF ips = <<>> THEN queue
  ELSE IF Head(ips) \notin processedSet /\ withinDepth(depth)
    THEN feedIPs(Tail(ips), depth,
                 Append(queue, Entry("ip", Head(ips), depth, depth - 1)))
    ELSE feedIPs(Tail(ips), depth, queue)

Buffered == Len(output) - received

\* Resolve(ctx, seed): the seed is enqueued at depth 0 and marked seen, and
\* the driver task is spawned.
StartResolve ==
  /\ driver = "new"
  /\ \E seed \in Seeds :
       /\ domainWork' = <<Entry("domain", seed, 0, -1)>>
       /\ seenSet' = {seed}
  /\ driver' = "running"
  /\ UNCHANGED <<config, apart, engine, cancelled, ipWork, processedSet, popped,
                 inFlight, output, received, closeCount, lateSends, probes,
                 atCancel>>

\* Mutant: the driver keeps dequeuing after the cancellation.
mayPop_ignoresCancel == inFlight = {}

\* The driver dequeues once the tasks of the previous pop have joined,
\* unless ctx is cancelled.
mayPop == inFlight = {} /\ ~cancelled

\* The driver pops an entry; an entry already processed is skipped.
Pop(queue, probers) ==
  /\ driver = "running"
  /\ mayPop
  /\ queue # <<>>
  /\ IF Head(queue).name \in processedSet
       THEN UNCHANGED <<processedSet, popped, inFlight, probes>>
       ELSE /\ processedSet' = processedSet \cup {Head(queue).name}
            /\ popped' = Head(queue)
            /\ inFlight' = 1..Len(probers)
            /\ probes' = probes \cup {Head(queue)}
  /\ UNCHANGED <<config, apart, engine, cancelled, seenSet, driver, output,
                 received, closeCount, lateSends, atCancel>>

PopDomain ==
  /\ Pop(domainWork, domainResolvers)
  /\ domainWork' = Tail(domainWork)
  /\ UNCHANGED ipWork

PopIP ==
  /\ Pop(ipWork, ipResolvers)
  /\ ipWork' = Tail(ipWork)
  /\ UNCHANGED domainWork

\* A send on the output channel: it waits for room in the buffer.
Send(resolution) ==
  /\ Buffered < OutCap
  /\ output' = Append(output, resolution)
  /\ lateSends' = IF closeCount > 0 THEN lateSends + 1 ELSE lateSends

\* A domain prober's task: the prober returns, the result is sent, the
\* discovered domains and IPs are fed back under the filters.
DomainTask(i) ==
  /\ popped # NoQuery
  /\ popped.kind = "domain"
  /\ i \in inFlight
  /\ \E resolution \in DomainResults(domainResolvers[i], popped.name) :
       /\ Send(resolution)
       /\ LET fed == feedDomains(Domains(resolution), resolution,
                                 popped.depth + 1, domainWork, seenSet)
          IN  /\ domainWork' = fed.queue
              /\ seenSet' = fed.seen
       /\ ipWork' = feedIPs(IPs(resolution), popped.depth + 1, ipWork)
  /\ inFlight' = inFlight \ {i}
  /\ UNCHANGED <<config, apart, engine, cancelled, processedSet, driver, popped,
                 received, closeCount, probes, atCancel>>

\* An IP prober's task.
IPTask(i) ==
  /\ popped # NoQuery
  /\ popped.kind = "ip"
  /\ i \in inFlight
  /\ \E resolution \in IPResults(ipResolvers[i], popped.name) :
       Send(resolution)
  /\ inFlight' = inFlight \ {i}
  /\ UNCHANGED <<config, apart, engine, cancelled, domainWork, ipWork, seenSet,
                 processedSet, driver, popped, received, closeCount, probes,
                 atCancel>>

\* Mutant: on cancellation the driver closes without joining its tasks.
mayClose_noJoin ==
  \/ cancelled
  \/ inFlight = {} /\ domainWork = <<>> /\ ipWork = <<>>

\* Mutant: the driver does not react to the cancellation.
mayClose_ignoresCancel ==
  inFlight = {} /\ domainWork = <<>> /\ ipWork = <<>>

\* The driver closes the output channel when every task has joined and
\* both queues are drained or ctx is cancelled.
mayClose ==
  /\ inFlight = {}
  /\ \/ cancelled
     \/ domainWork = <<>> /\ ipWork = <<>>

\* Mutant: the driver goes on after it has closed the channel.
afterClose_goesOn == "running"

\* The driver task ends with the close.
afterClose == "closed"

Close ==
  /\ driver = "running"
  /\ mayClose
  /\ closeCount' = closeCount + 1
  /\ driver' = afterClose
  /\ UNCHANGED <<config, apart, engine, cancelled, domainWork, ipWork, seenSet,
                 processedSet, popped, inFlight, output, received, lateSends,
                 probes, atCancel>>

\* The consumer reads one result from the output channel.
Consume ==
  /\ Buffered > 0
  /\ received' = received + 1
  /\ UNCHANGED <<config, apart, engine, cancelled, domainWork, ipWork, seenSet,
                 processedSet, driver, popped, inFlight, output, closeCount,
                 lateSends, probes, atCancel>>

\* The caller cancels ctx (before Resolve, during the crawl or after it).
Cancel ==
  /\ ~cancelled
  /\ cancelled' = TRUE
  /\ atCancel' = [received |-> received,
                  pending |-> Buffered + Cardinality(inFlight),
                  before |-> driver = "new"]
  /\ UNCHANGED <<config, apart, engine, domainWork, ipWork, seenSet, processedSet,
                 driver, popped, inFlight, output, received, closeCount,
                 lateSends, probes>>

DriverStep == StartResolve \/ PopDomain \/ PopIP \/ Close
TaskStep ==
  \/ \E i \in 1..Len(domainResolvers) : DomainTask(i)
  \/ \E i \in 1..Len(ipResolvers) : IPTask(i)

StreamNext == DriverStep \/ TaskStep \/ Consume \/ Cancel

StreamSpec == StreamInit /\ [][StreamNext]_vars

\* The driver and the tasks are scheduled, and the consumer keeps reading.
FairStreamSpec ==
  /\ StreamSpec
  /\ WF_vars(DriverStep)
  /\ WF_vars(TaskStep)
  /\ WF_vars(Consume)

(***************************************************************************)
(* Properties of the engine.                                               *)
(***************************************************************************)
Indices(s) == 1..Len(s)
Count(s, P(_)) == Cardinality({i \in Indices(s) : P(s[i])})
DomainTypes == {"DNS", "HTTP"}
TypeOf(kind) == IF kind = "DNS" THEN "DNS" ELSE "HTTP"
IsDomainResolution(r) == r.type \in DomainTypes
HasCname(r, d) ==
  /\ r.type = "DNS"
  /\ \E i \in Indices(r.Records) :
       r.Records[i].rrtype = "CNAME" /\ cleanDomain(r.Records[i].target) = d
Lists(r, d) == \E i \in Indices(Domains(r)) : Domains(r)[i] = d

\* C1: a session terminates: both queues are drained and Resolve returns,
\* whatever finite set of domains and IPs the resolvers report.
C1_SessionTerminates == <>(pc = "done")

\* C2: processed only grows, a resolver is started only for a query that is
\* not processed, and no resolver is called twice for the same query string.
C2_ProcessedGrowsNoRerun ==
  [][/\ processed \subseteq processed'
     /\ calls' # calls => ~(query \in processed)
     /\ \A c \in BagToSet(calls') : CopiesIn(c, calls') = 1]_vars

\* An IP reported by two resolutions was sent twice on ipQueue and probed once.
C2_Witness ==
  /\ pc = "done"
  /\ \E q \in {IPa, IPb} :
       /\ Count(FlatMap(IPs, resolutions), LAMBDA ip : ip = q) >= 2
       /\ CopiesIn(<<"ip", 1, q>>, calls) = 1

\* C3: when the session has ended, every domain sent on domainQueue has
\* exactly one resolution per registered domain resolver among the results.
C3_OneResultSetPerDomain ==
  pc = "done" =>
    \A e \in Indices(enqueued) : \A t \in DomainTypes :
      Count(resolutions, LAMBDA r : r.query = enqueued[e] /\ r.type = t)
        = Count(domainResolvers, LAMBDA kind : TypeOf(kind) = t)

C3_Witness ==
  /\ pc = "done"
  /\ Len(domainResolvers) = 2
  /\ Len(enqueued) >= 2
  /\ Count(resolutions, IsDomainResolution) = 2 * Len(enqueued)

C5_CnameTargetResolved ==
  pc = "done" =>
    \A j \in Indices(resolutions) :
      \A i \in Indices(resolutions[j].Records) :
        resolutions[j].Records[i].rrtype = "CNAME" =>
          \E k \in Indices(resolutions) :
            /\ IsDomainResolution(resolutions[k])
            /\ resolutions[k].query = cleanDomain(resolutions[j].Records[i].target)

(***************************************************************************)
(* Properties of the streaming session.                                    *)
(***************************************************************************)
Queued == {domainWork[i] : i \in Indices(domainWork)}
            \cup {ipWork[i] : i \in Indices(ipWork)}
ProberCount(e, t) ==
  IF e.kind = "domain" THEN Count(domainResolvers, LAMBDA k : TypeOf(k) = t)
  ELSE Count(ipResolvers, LAMBDA k : k = t)

\* C6: the seed has depth 0, a discovered entry has the depth of the entry
\* it was discovered from plus one, and with maxDepth >= 0 no entry deeper
\* than maxDepth is enqueued, dequeued or probed; with maxDepth = 0 only
\* the seed is probed.
C6_DepthBound ==
  /\ \A e \in probes \cup Queued :
       /\ e.from = -1 => e.depth = 0 /\ e.kind = "domain" /\ e.name \in Seeds
       /\ e.from >= 0 =>
            /\ e.depth = e.from + 1
            /\ \E p \in probes : p.kind = "domain" /\ p.depth = e.from
       /\ maxDepth >= 0 => e.depth <= maxDepth
  /\ maxDepth = 0 => \A e \in probes : e.from = -1

\* A related domain found at depth 1 was left out because maxDepth is 1.
C6_Witness ==
  /\ maxDepth = 1
  /\ driver = "closed"
  /\ ~cancelled
  /\ \E e \in probes :
       /\ e.kind = "domain" /\ e.depth = 1
       /\ \E i \in Indices(output) :
            /\ output[i].query = e.name
            /\ \E d \in Universe :
                 /\ Lists(output[i], d)
                 /\ d \notin seenSet
                 /\ isCnameOrRelated(d, output[i])

\* C7: once the output channel is closed no task is in flight and nothing
\* has been sent after the close: every prober's result for every popped
\* query has been sent before it, cancelled or not.
C7_ClosedAfterTasks ==
  closeCount > 0 =>
    /\ inFlight = {}
    /\ lateSends = 0
    /\ \A e \in probes : \A t \in DomainTypes \cup {"BGP", "GEO"} :
         Count(output, LAMBDA r : r.query = e.name /\ r.type = t)
           = ProberCount(e, t)

\* Closed after two pops of two probers each.
C7_Witness ==
  /\ closeCount = 1
  /\ Cardinality(probes) >= 2
  /\ Len(output) >= 4

\* C8: the output channel is closed at most once, exactly once when the
\* driver has ended, and no task sends on the closed channel.
C8_ClosedOnceNoLateSend ==
  /\ closeCount <= 1
  /\ lateSends = 0
  /\ driver = "closed" => closeCount = 1

\* Closed after a cancellation that found results pending.
C8_Witness ==
  /\ closeCount = 1
  /\ cancelled
  /\ atCancel.pending > 0
  /\ ~atCancel.before

\* C9: after the cancellation the consumer reads no more results than were
\* buffered or in flight when ctx was cancelled, the channel is closed and
\* every task has ended.
C9_CancelLeadsToClose ==
  /\ [](cancelled => received - atCancel.received <= atCancel.pending)
  /\ cancelled ~> (closeCount = 1 /\ inFlight = {})

\* One result read, ctx cancelled mid-crawl, more results read, then closed.
C9_Witness ==
  /\ cancelled
  /\ atCancel.received = 1
  /\ received > atCancel.received
  /\ closeCount = 1
  /\ inFlight = {}

\* C10: once ctx is cancelled no entry is popped, and a session started
\* with a cancelled ctx emits at most one result.
C10_NoPopAfterCancel ==
  /\ [][cancelled => probes' = probes]_vars
  /\ [](cancelled /\ atCancel.before => Len(output) <= 1)

\* A session started with a cancelled ctx has closed its channel.
C10_Witness ==
  /\ cancelled
  /\ atCancel.before
  /\ closeCount = 1

(***************************************************************************)
(* Further properties of the engine.                                       *)
(***************************************************************************)
KnownIPs == {IPa, IPb}

\* The IPs reported by the domain resolutions gathered so far.
ListedIPs ==
  {ip \in KnownIPs :
     \E j \in Indices(resolutions) :
       /\ IsDomainResolution(resolutions[j])
       /\ \E i \in Indices(IPs(resolutions[j])) : IPs(resolutions[j])[i] = ip}

ProbedByAll(ip) ==
  \A i \in Indices(ipResolvers) : CopiesIn(<<"ip", i, ip>>, calls) = 1

\* C11: every IP a domain resolution reports is eventually probed by every
\* registered IP resolver, and no IP resolver is called twice for one IP.
C11_ListedIpProbedOnce ==
  /\ [](\A ip \in KnownIPs : \A i \in Indices(ipResolvers) :
          CopiesIn(<<"ip", i, ip>>, calls) <= 1)
  /\ \A ip \in KnownIPs : (ip \in ListedIPs) ~> ProbedByAll(ip)

\* C12: a resolver's resolution carries the very string that was polled,
\* and so every resolution's query is the seed, a domain sent on
\* domainQueue, or an IP that a domain resolution reported (the strings
\* Resolve sends on ipQueue).
C12_QueryIsPolledString ==
  /\ [][Len(resolutionChannel') > Len(resolutionChannel) =>
          resolutionChannel'[Len(resolutionChannel')].query = query]_vars
  /\ [](\A k \in Indices(resolutions) :
          IF IsDomainResolution(resolutions[k])
            THEN \E e \in Indices(enqueued) : enqueued[e] = resolutions[k].query
            ELSE resolutions[k].query \in ListedIPs)

\* A finished session with resolutions for two domains and for an IP.
C12_Witness ==
  /\ pc = "done"
  /\ Len(enqueued) >= 2
  /\ \E k \in Indices(resolutions) :
       IsDomainResolution(resolutions[k]) /\ resolutions[k].query = enqueued[2]
  /\ \E k \in Indices(resolutions) : ~IsDomainResolution(resolutions[k])

(***************************************************************************)
(* One call of PTRResolver.ResolveIP, step by step.  The name queried      *)
(* (the reversed address under in-addr.arpa or ip6.arpa) has no part in    *)
(* what the call returns and is left out.                                  *)
(***************************************************************************)
\* Longest msg.Answer of a reply.
MaxAnswers == 2

IPv6a == <<"2001:db8::1">>
BadIP == <<"not-an-ip">>
Root == <<"", "">>
ProbeIPs == {IPa, IPb, IPv6a, BadIP, EmptyString}

\* net.ParseIP: nil for a string that is no IP address.
ParseIP(ip) ==
  IF ip \in {IPa, IPb} THEN "v4" ELSE IF ip = IPv6a THEN "v6" ELSE "nil"

PTR(ptr) == [rrtype |-> "PTR", target |-> ptr]

PtrRecords == {PTR(<<"mail", "tens", "ten", "">>), PTR(Root), CNAME(Sub)}

\* queryOne: an error (a network error, or the rcode of a reply that is
\* not a success) or the reply.
PtrReplies ==
  {[err |-> e, Answer |-> <<>>] : e \in {"NXDOMAIN", "timeout"}}
    \cup {[err |-> "", Answer |-> a] : a \in SeqsUpTo(PtrRecords, MaxAnswers)}

PtrInit ==
  /\ domainResolvers = <<>>
  /\ ipResolvers = <<"PTR">>
  /\ strict = FALSE
  /\ maxDepth = -1
  /\ EngineNew
  /\ StreamNew
  /\ ApartNew

PtrReturns ==
  /\ ptrReturned' = Append(ptrReturned, ptrResolution)
  /\ ptrPc' = "returned"

PtrResolveIP ==
  /\ ptrPc = "idle"
  /\ \E ip \in ProbeIPs :
       /\ ptrIp' = ip
       /\ ptrResolution' = [query |-> ip, Hostnames |-> <<>>]
  /\ ptrPc' = "parse"
  /\ UNCHANGED <<besidePtr, ptrReply, ptrAnswers, ptrReturned>>

PtrParse ==
  /\ ptrPc = "parse"
  /\ IF ParseIP(ptrIp) = "nil"
       THEN PtrReturns
       ELSE ptrPc' = "query" /\ UNCHANGED ptrReturned
  /\ UNCHANGED <<besidePtr, ptrIp, ptrReply, ptrAnswers,
                 ptrResolution>>

PtrQuery ==
  /\ ptrPc = "query"
  /\ \E reply \in PtrReplies :
       /\ ptrReply' = reply
       /\ IF reply.err # ""
            THEN PtrReturns /\ UNCHANGED ptrAnswers
            ELSE /\ ptrAnswers' = reply.Answer
                 /\ ptrPc' = "collect"
                 /\ UNCHANGED ptrReturned
  /\ UNCHANGED <<besidePtr, ptrIp, ptrResolution>>

\* Mutant: the record type is not looked at before the type assertion.
visitsRecord_any(rr) == TRUE

\* if rr.Header().Rrtype != dns.TypePTR { continue }
visitsRecord(rr) == rr.rrtype = "PTR"

\* One round of the loop over msg.Answer; rr.(*dns.PTR) panics on a record
\* of another type.
PtrCollect ==
  /\ ptrPc = "collect"
  /\ ptrAnswers # <<>>
  /\ LET rr == Head(ptrAnswers)
         hostname == cleanDomain(rr.target)
     IN  IF ~visitsRecord(rr)
           THEN UNCHANGED <<ptrPc, ptrResolution>>
         ELSE IF rr.rrtype # "PTR"
           THEN ptrPc' = "panic" /\ UNCHANGED ptrResolution
         ELSE IF hostname # EmptyString
           THEN /\ ptrResolution' =
                     [ptrResolution EXCEPT !.Hostnames = Append(@, hostname)]
                /\ UNCHANGED ptrPc
         ELSE UNCHANGED <<ptrPc, ptrResolution>>
  /\ ptrAnswers' = Tail(ptrAnswers)
  /\ UNCHANGED <<besidePtr, ptrIp, ptrReply, ptrReturned>>

PtrReturn ==
  /\ ptrPc = "collect"
  /\ ptrAnswers = <<>>
  /\ PtrReturns
  /\ UNCHANGED <<besidePtr, ptrIp, ptrReply, ptrAnswers,
                 ptrResolution>>

PtrNext == PtrResolveIP \/ PtrParse \/ PtrQuery \/ PtrCollect \/ PtrReturn

PtrSpec == PtrInit /\ [][PtrNext]_vars

\* The goroutine making the call is scheduled.
FairPtrSpec == PtrSpec /\ WF_vars(PtrNext)

PtrFailed ==
  \/ ParseIP(ptrIp) = "nil"
  \/ ptrReply # NoQuery /\ ptrReply.err # ""

MaxCalls == 2

\* Resolve(domain) once the earlier call has returned: a new result slice,
\* and the queues and maps the instance was constructed with.
ResolveAgain ==
  /\ pc = "done"
  /\ Len(earlier) < MaxCalls - 1
  /\ \E domain \in Seeds :
       /\ Len(domainQueue) < QueueCap
       /\ domainQueue' = Append(domainQueue, domain)
       /\ enqueued' = Append(enqueued, domain)
       /\ earlier' = Append(earlier, [resolutions |-> resolutions,
                                      next |-> domain])
  /\ resolutions' = <<>>
  /\ pc' = "resolveDomains"
  /\ UNCHANGED <<config, stream, ptrCall, utilCalls, nsCalls, standalone,
                 concurrent, ipQueue,
                 processed, seen, query, wg, resolutionChannel, pending,
                 calls>>

AgainNext == Next \/ ResolveAgain

AgainSpec == Init /\ [][AgainNext]_vars

\* C14: a Resolve call made after an earlier one on the same instance has
\* returned delivers the results of every domain resolver for its seed.
C14_LaterCallResolvesSeed ==
  (pc = "done" /\ earlier # <<>>) =>
    \A t \in DomainTypes :
      Count(resolutions,
            LAMBDA r : r.query = earlier[Len(earlier)].next /\ r.type = t)
        = Count(domainResolvers, LAMBDA kind : TypeOf(kind) = t)

(***************************************************************************)
(* The functions of utils, applied to strings of every shape.              *)
(***************************************************************************)
UtilStrings ==
  {Ten, Sub, Alt, Far, FarDot, EmptyString, Root,
   <<"ten">>, <<"ten", "">>, <<"sub", "tens">>, <<"Tens", "ten">>,
   <<"www", "tens", "ten">>, <<"WWW", "tens", "ten">>,
   <<"www", "www", "tens", "ten">>, <<"*", "tens", "ten">>,
   <<"www", "*", "tens", "ten">>, <<"tens", "ten", "", "">>}

UtilInit ==
  /\ domainResolvers = <<>>
  /\ ipResolvers = <<>>
  /\ strict \in BOOLEAN
  /\ maxDepth = -1
  /\ EngineNew
  /\ StreamNew
  /\ PtrNew
  /\ earlier = <<>>
  /\ argA \in UtilStrings
  /\ argB \in UtilStrings
  /\ relatedResult = NoQuery
  /\ cleanResult = NoQuery
  /\ NsNew
  /\ StandaloneNew
  /\ ConcurrentNew

\* isDomainRelated(argA, argB, strict), with the arguments swapped, and in
\* either mode.
CallIsDomainRelated ==
  /\ relatedResult = NoQuery
  /\ relatedResult' = [ab |-> isDomainRelated(argA, argB, strict),
                       ba |-> isDomainRelated(argB, argA, strict),
                       default |-> DefaultDomainRelation(argA, argB),
                       strictly |-> StrictDomainRelation(argA, argB)]
  /\ UNCHANGED <<besideUtil, strict, argA, argB, cleanResult>>

\* cleanDomain(argA), applied once more, and applied to argA with a
\* trailing ".", a leading "*." and a leading "www.".
CallCleanDomain ==
  /\ cleanResult = NoQuery
  /\ cleanResult' = [once |-> cleanDomain(argA),
                     twice |-> cleanDomain(cleanDomain(argA)),
                     dotted |-> cleanDomain(Append(argA, "")),
                     starred |-> cleanDomain(<<"*">> \o argA),
                     wwwed |-> cleanDomain(<<"www">> \o argA)]
  /\ UNCHANGED <<besideUtil, strict, argA, argB, relatedResult>>

UtilNext == CallIsDomainRelated \/ CallCleanDomain

UtilSpec == UtilInit /\ [][UtilNext]_vars

\* The labels of a domain name; none for "" and for the root.
LabelsOf(s) == IF s \in {EmptyString, Root} THEN <<>> ELSE TrimSuffixDot(s)
SecondLast(s) == LabelsOf(s)[Len(LabelsOf(s)) - 1]
LastLabel(s) == LabelsOf(s)[Len(LabelsOf(s))]

\* C15: isDomainRelated(a, b, strict) is true exactly if a and b have two
\* labels or more, equal second-to-last labels and, in strict mode, equal
\* last labels; strict relatedness implies the default one, and a string
\* of fewer than two labels is related to nothing.
C15_RelatedIffSecondOrderEqual ==
  relatedResult # NoQuery =>
    /\ relatedResult.ab <=>
         /\ Len(LabelsOf(argA)) >= 2
         /\ Len(LabelsOf(argB)) >= 2
         /\ SecondLast(argA) = SecondLast(argB)
         /\ strict => LastLabel(argA) = LastLabel(argB)
    /\ relatedResult.strictly => relatedResult.default
    /\ (Len(LabelsOf(argA)) < 2 \/ Len(LabelsOf(argB)) < 2) =>
         ~relatedResult.ab /\ ~relatedResult.default

\* tens.ten and tens.net: related by default, not in strict mode.
C15_Witness ==
  /\ relatedResult # NoQuery
  /\ argA = Ten
  /\ argB = Alt
  /\ relatedResult.default
  /\ ~relatedResult.strictly

\* C16: isDomainRelated gives the same answer with its two strings
\* swapped, in either mode, invalid names and bare TLDs included.
C16_RelatedSymmetric ==
  relatedResult # NoQuery => relatedResult.ab = relatedResult.ba

\* A bare TLD against a domain under it, in strict mode.
C16_Witness ==
  /\ relatedResult # NoQuery
  /\ strict
  /\ argA = <<"ten">>
  /\ argB = Ten
  /\ relatedResult.ab = relatedResult.ba

\* C17: cleanDomain applied twice gives what it gives applied once, and a
\* trailing ".", a leading "*." or a leading "www." added to the string
\* does not change what it gives.
C17_CleanDomainIdempotent ==
  cleanResult # NoQuery =>
    /\ cleanResult.twice = cleanResult.once
    /\ cleanResult.dotted = cleanResult.once
    /\ cleanResult.starred = cleanResult.once
    /\ cleanResult.wwwed = cleanResult.once

(***************************************************************************)
(* The strings the engine stores.                                          *)
(***************************************************************************)
HasTrailingDot(s) == Len(s) >= 2 /\ s[Len(s)] = ""
HasLeading(s, l) == Len(s) >= 2 /\ s[1] = l
IsLowerCase(s) == \A i \in Indices(s) : ToLowerLabel(s[i]) = s[i]

IsNormalized(s) ==
  /\ IsLowerCase(s)
  /\ ~HasTrailingDot(s)
  /\ ~HasLeading(s, "*")
  /\ ~HasLeading(s, "www")

\* C18: every string in domainQueue, in seen and in processed, and the
\* query of every domain resolution, is lower-case, has no trailing dot and
\* no leading "*." or "www.".
C18_StoredDomainsNormalized ==
  /\ \A i \in Indices(domainQueue) : IsNormalized(domainQueue[i])
  /\ \A s \in seen : IsNormalized(s)
  /\ \A s \in processed : IsNormalized(s)
  /\ \A k \in Indices(resolutions) :
       IsDomainResolution(resolutions[k]) => IsNormalized(resolutions[k].query)

(***************************************************************************)
(* DNSResolver.findNameServerFor: the name server the queries for a domain *)
(* are sent to.  Calls are made one after another (ResolveDomain makes the *)
(* call before it starts its goroutines).                                  *)
(***************************************************************************)
\* The longest chain of parents: deep.all.tens.ten, all.tens.ten, tens.ten.
MaxQueries == 3

NS(ns) == [rrtype |-> "NS", target |-> ns]
\* Names as miekg/dns unpacks them: fully qualified.
Ns1 == <<"ns1", "tens", "ten", "">>
Ns2 == <<"ns2", "tens", "net", "">>
\* resolver.NameServer = "1.1.1.1"
Custom == <<"1", "1", "1", "1">>

\* s + ":53"
Plus53(s) == Append(s, ":53")

\* findLocalNameServer: config.Servers[0] + ":53".
localNameServer == Plus53(<<"127", "0", "0", "53">>)

\* What queryOneCallback(domain, dns.TypeNS, localNameServer, ...) returns:
\* an error (timeout, network error, Rcode other than success) or a message
\* with its Answer section.
NsReplies ==
  {[err |-> TRUE, Answer |-> <<>>]} \cup
  {[err |-> FALSE, Answer |-> answer] :
     answer \in {<<>>, <<NS(Ns1)>>, <<NS(Ns1), NS(Ns2)>>, <<CNAME(Sub), NS(Ns2)>>}}

\* dns.CountLabel
CountLabel(s) ==
  IF s = Root THEN 0
  ELSE IF Len(s) >= 2 /\ s[Len(s)] = "" THEN Len(s) - 1
  ELSE Len(s)

isSubdomain(domain) == CountLabel(domain) >= 3

\* strings.Split(domain, "."), strings.Join(labels[1:], ".")
parentDomainOf(domain) ==
  IF Len(domain) <= 2 THEN EmptyString ELSE Tail(domain)

\* A label without its last character.
ChopLabel(l) ==
  CASE l = "ten" -> "te"
    [] l = "net" -> "ne"
    [] OTHER -> l

\* s[:len(s)-1]: the string without its last character.
DropLast(s) ==
  IF Len(s) >= 2 /\ s[Len(s)] = "" THEN SubSeq(s, 1, Len(s) - 1)
  ELSE [s EXCEPT ![Len(s)] = ChopLabel(@)]

\* Mutant: the last NS record of the answer is taken.
getNameServerFor_lastNS(reply) ==
  LET nsAt == IF reply.err THEN {}
              ELSE {i \in 1..Len(reply.Answer) : reply.Answer[i].rrtype = "NS"}
  IN  IF nsAt # {}
        THEN LET nsRecord ==
                   reply.Answer[CHOOSE i \in nsAt : \A j \in nsAt : j <= i]
             IN  Plus53(DropLast(nsRecord.target))
        ELSE EmptyString

\* getNameServerFor, given what the NS query returned.
getNameServerFor(reply) ==
  LET nsAt == IF reply.err THEN {}
              ELSE {i \in 1..Len(reply.Answer) : reply.Answer[i].rrtype = "NS"}
  IN  IF nsAt # {}
        THEN LET nsRecord ==
                   reply.Answer[CHOOSE i \in nsAt : \A j \in nsAt : i <= j]
             IN  Plus53(DropLast(nsRecord.target))
        ELSE EmptyString

\* Mutant: the cache is never hit.
cached_never(cache, domain) == EmptyString

\* resolver.nameServerCache[domain]
cached(cache, domain) == cache[domain]

\* findNameServerFor(domain) with the cache as it stands; replies are what
\* the NS queries of the call return, in the order they are issued.  Gives
\* the name server, the cache the call leaves, the queries it issued and
\* what each invocation (the call and its recursive calls) returned.
RECURSIVE findNameServerFor(_, _, _)
findNameServerFor(domain, cache, replies) ==
  IF NameServer # EmptyString
    THEN [nameServer |-> NameServer, cache |-> cache, asked |-> <<>>,
          returned |-> <<[domain |-> domain, nameServer |-> NameServer]>>]
  ELSE IF cached(cache, domain) # EmptyString
    THEN [nameServer |-> cached(cache, domain), cache |-> cache,
          asked |-> <<>>,
          returned |-> <<[domain |-> domain,
                          nameServer |-> cached(cache, domain)]>>]
  ELSE
    LET reply == Head(replies)
        own == getNameServerFor(reply)
        climbs == own = EmptyString /\ isSubdomain(domain)
        parent == IF climbs
                    THEN findNameServerFor(parentDomainOf(domain), cache,
                                           Tail(replies))
                    ELSE [nameServer |-> localNameServer, cache |-> cache,
                          asked |-> <<>>, returned |-> <<>>]
        nameServer == IF own # EmptyString THEN own ELSE parent.nameServer
    IN  [nameServer |-> nameServer,
         cache |-> [parent.cache EXCEPT ![domain] = nameServer],
         asked |-> <<[domain |-> domain, reply |-> reply]>> \o parent.asked,
         returned |-> Append(parent.returned,
                             [domain |-> domain, nameServer |-> nameServer])]

\* The first return of every domain, after the returns of one more call.
RECURSIVE FirstReturns(_, _)
FirstReturns(first, returned) ==
  IF returned = <<>> THEN first
  ELSE LET r == Head(returned)
       IN  FirstReturns(IF first[r.domain] = EmptyString
                          THEN [first EXCEPT ![r.domain] = r.nameServer]
                          ELSE first,
                        Tail(returned))

\* NewDNSResolver, with or without a user-supplied name server.
NsInit ==
  /\ domainResolvers = <<"DNS">>
  /\ ipResolvers = <<>>
  /\ strict = FALSE
  /\ maxDepth = -1
  /\ EngineNew
  /\ StreamNew
  /\ PtrNew
  /\ earlier = <<>>
  /\ UtilNew
  /\ NameServer \in {EmptyString, Custom}
  /\ nameServerCache = EmptyMap
  /\ lookup = NoQuery
  /\ firstReturn = EmptyMap
  /\ StandaloneNew
  /\ ConcurrentNew

\* One call of findNameServerFor.
FindNameServerFor ==
  /\ \E domain \in NsDomains :
       \E replies \in [1..(IF Len(domain) - 1 < MaxQueries THEN Len(domain) - 1
                           ELSE MaxQueries) -> NsReplies] :
         LET call == findNameServerFor(domain, nameServerCache, replies)
         IN  /\ nameServerCache' = call.cache
             /\ lookup' = [domain |-> domain,
                           nameServer |-> call.nameServer,
                           asked |-> call.asked,
                           returned |-> call.returned,
                           before |-> firstReturn]
             /\ firstReturn' = FirstReturns(firstReturn, call.returned)
  /\ UNCHANGED <<NameServer, besideNs>>

NsNext == FindNameServerFor

NsSpec == NsInit /\ [][NsNext]_vars

\* The reply holds at least one NS RR.
HasNsRecord(reply) ==
  ~reply.err /\ \E i \in Indices(reply.Answer) : reply.Answer[i].rrtype = "NS"

\* The name of the first NS RR of the reply, without the dot that ends it.
FirstNsName(reply) ==
  LET first == CHOOSE i \in Indices(reply.Answer) :
                 /\ reply.Answer[i].rrtype = "NS"
                 /\ \A j \in 1..(i - 1) : reply.Answer[j].rrtype # "NS"
  IN  TrimSuffixDot(reply.Answer[first].target)

\* C19: findNameServerFor(d) returns the user-supplied name server, with
\* no NS query issued, if there is one.  Otherwise an invocation that has
\* not decided d before issues the NS query and returns the first NS name
\* of the reply followed by ":53" if the reply holds an NS RR; otherwise
\* what the invocation for the parent of d returned if d has at least three
\* labels; otherwise the local resolver.
C19_NameServerDecision ==
  lookup # NoQuery =>
    /\ lookup.returned[Len(lookup.returned)] =
         [domain |-> lookup.domain, nameServer |-> lookup.nameServer]
    /\ NameServer # EmptyString =>
         lookup.nameServer = NameServer /\ lookup.asked = <<>>
    /\ NameServer = EmptyString =>
         \A k \in Indices(lookup.returned) :
           LET d == lookup.returned[k].domain
               result == lookup.returned[k].nameServer
               queries == {i \in Indices(lookup.asked) :
                             lookup.asked[i].domain = d}
           IN  IF queries = {} THEN lookup.before[d] # EmptyString
               ELSE \A i \in queries :
                      LET reply == lookup.asked[i].reply
                      IN  IF HasNsRecord(reply)
                            THEN result = Plus53(FirstNsName(reply))
                          ELSE IF Len(d) >= 3
                            THEN /\ k > 1
                                 /\ lookup.returned[k - 1].domain = Tail(d)
                                 /\ result = lookup.returned[k - 1].nameServer
                          ELSE result = localNameServer

\* A call for deep.all.tens.ten that found no NS RR for it and got the
\* first of the two NS names of its parent.
C19_Witness ==
  /\ lookup # NoQuery
  /\ NameServer = EmptyString
  /\ lookup.domain = Deep
  /\ Len(lookup.asked) = 2
  /\ Len(lookup.asked[2].reply.Answer) = 2
  /\ lookup.nameServer = Plus53(<<"ns1", "tens", "ten">>)

\* C20: with no user-supplied name server, a call for a domain that
\* findNameServerFor has returned for before returns what the first such
\* call returned and issues no NS query.
C20_DecisionCached ==
  (/\ lookup # NoQuery
   /\ NameServer = EmptyString
   /\ lookup.before[lookup.domain] # EmptyString) =>
    /\ lookup.nameServer = lookup.before[lookup.domain]
    /\ lookup.asked = <<>>

\* A second call for all.tens.ten, decided by falling back to the local
\* resolver the first time.
C20_Witness ==
  /\ lookup # NoQuery
  /\ NameServer = EmptyString
  /\ lookup.domain = Ten
  /\ lookup.before[Ten] = localNameServer
  /\ lookup.nameServer = localNameServer
  /\ lookup.asked = <<>>

(***************************************************************************)
(* The probers taken on their own start from a fresh instance each.        *)
(***************************************************************************)
AloneInit ==
  /\ domainResolvers = <<>>
  /\ ipResolvers = <<>>
  /\ strict = FALSE
  /\ maxDepth = -1
  /\ EngineNew
  /\ StreamNew
  /\ ApartNew

\* How often x occurs in the sequence s.
Occurrences(s, x) == Cardinality({i \in 1..Len(s) : s[i] = x})

RECURSIVE Flatten(_)
Flatten(slices) ==
  IF slices = <<>> THEN <<>> ELSE Head(slices) \o Flatten(Tail(slices))

(***************************************************************************)
(* DNSResolver.ResolveDomain: one query per type of resolver.QueryTypes,   *)
(* each in its own goroutine.                                              *)
(***************************************************************************)
\* Capacity of recordChannel.
RecordChannelCap == 128

QueryTypes == <<"A", "NS", "ANY">>

\* What client.Exchange gives for one query: an error, or a response with
\* its Rcode and Answer section.
Exchanges ==
  {[failed |-> TRUE, Rcode |-> "NONE", Answer |-> <<>>],
   [failed |-> FALSE, Rcode |-> "NXDOMAIN", Answer |-> <<CNAME(Sub)>>]} \cup
  {[failed |-> FALSE, Rcode |-> "NOERROR", Answer |-> answer] :
     answer \in {<<>>, <<ARecord(IPa)>>, <<CNAME(Sub), ARecord(IPa)>>}}

\* Mutant: a response is passed on whatever its Rcode.
queryOne_anyRcode(exchange) ==
  IF exchange.failed THEN [err |-> TRUE, Answer |-> <<>>]
  ELSE [err |-> FALSE, Answer |-> exchange.Answer]

\* queryOne: nil and an error unless the exchange succeeded with
\* dns.RcodeSuccess.
queryOne(exchange) ==
  IF exchange.failed THEN [err |-> TRUE, Answer |-> <<>>]
  ELSE IF exchange.Rcode # "NOERROR" THEN [err |-> TRUE, Answer |-> <<>>]
  ELSE [err |-> FALSE, Answer |-> exchange.Answer]

DNSRecordPair(qType, rr) == [QueryType |-> qType, Record |-> rr]

\* resolveOne, given what the exchange for the query gave.
resolveOne(qType, exchange) ==
  LET msg == queryOne(exchange)
  IN  IF msg.err THEN <<>>
      ELSE [i \in 1..Len(msg.Answer) |-> DNSRecordPair(qType, msg.Answer[i])]

\* ResolveDomain up to wg.Wait(): the goroutines are started.
DnsResolveDomain ==
  /\ dnsCall = NoQuery
  /\ dnsCall' = [pc |-> "wait",
                 wg |-> 1..Len(QueryTypes),
                 recordChannel |-> <<>>,
                 Records |-> <<>>,
                 exchanged |-> [i \in 1..Len(QueryTypes) |-> NoQuery]]
  /\ UNCHANGED <<besideProbers, whoisCall, httpCall, ctCall, bgpCall, geoCall>>

\* One goroutine: recordChannel <- resolver.resolveOne(...); wg.Done().
DnsResolveOne(i) ==
  /\ dnsCall # NoQuery
  /\ dnsCall.pc = "wait"
  /\ i \in dnsCall.wg
  /\ Len(dnsCall.recordChannel) < RecordChannelCap
  /\ \E exchange \in Exchanges :
       dnsCall' = [dnsCall EXCEPT
                     !.recordChannel = Append(@, resolveOne(QueryTypes[i],
                                                            exchange)),
                     !.wg = @ \ {i},
                     !.exchanged[i] = exchange]
  /\ UNCHANGED <<besideProbers, whoisCall, httpCall, ctCall, bgpCall, geoCall>>

\* wg.Wait() returns; the records are collected and the resolution returned.
DnsCollect ==
  /\ dnsCall # NoQuery
  /\ dnsCall.pc = "wait"
  /\ dnsCall.wg = {}
  /\ dnsCall' = [dnsCall EXCEPT !.pc = "returned",
                                !.Records = Flatten(dnsCall.recordChannel),
                                !.recordChannel = <<>>]
  /\ UNCHANGED <<besideProbers, whoisCall, httpCall, ctCall, bgpCall, geoCall>>

DnsNext ==
  \/ DnsResolveDomain
  \/ \E i \in 1..Len(QueryTypes) : DnsResolveOne(i)
  \/ DnsCollect

DnsSpec == AloneInit /\ [][DnsNext]_vars

\* Every goroutine that can run does, and so does ResolveDomain.
FairDnsSpec == DnsSpec /\ WF_vars(DnsNext)

\* The records a response may hold.
AnswerRecords == {CNAME(Sub), ARecord(IPa)}

Succeeded(exchange) == ~exchange.failed /\ exchange.Rcode = "NOERROR"

\* C21: the resolution is returned whatever the queries ran into, and its
\* Records hold each answer RR of each query that succeeded as often as
\* the answer holds it, and nothing of a query that failed or came back
\* with another Rcode, whatever order the goroutines finished in.
C21_RecordsAreAnswersOfSucceeded ==
  /\ [](dnsCall # NoQuery /\ dnsCall.pc = "returned" =>
          \A i \in 1..Len(QueryTypes) : \A rr \in AnswerRecords :
            Occurrences(dnsCall.Records, DNSRecordPair(QueryTypes[i], rr)) =
              IF Succeeded(dnsCall.exchanged[i])
                THEN Occurrences(dnsCall.exchanged[i].Answer, rr)
                ELSE 0)
  /\ <>(dnsCall # NoQuery /\ dnsCall.pc = "returned")

\* The ANY query finished first and succeeded, the A query failed, the NS
\* query came back NXDOMAIN.
C21_Witness ==
  /\ dnsCall # NoQuery
  /\ dnsCall.pc = "returned"
  /\ dnsCall.exchanged[1].failed
  /\ dnsCall.exchanged[2].Rcode = "NXDOMAIN"
  /\ Len(dnsCall.Records) = 2
  /\ dnsCall.Records[1].QueryType = "ANY"

(***************************************************************************)
(* whois: parseWhoisResponse and WhoisContact.  A line of text is a        *)
(* sequence of pieces separated by ", "; a piece is a text, or a key and a *)
(* text separated by ":".                                                  *)
(***************************************************************************)
MaxLines == 4

Piece(key, text) == [key |-> key, text |-> text]

LastUpdate == ">>> last update of whois database"

\* strings.ToLower on the keys and texts in use.
ToLowerText(t) ==
  CASE t = "Registrar" -> "registrar"
    [] t = "Acme" -> "acme"
    [] t = ">>> Last update of WHOIS database" -> LastUpdate
    [] OTHER -> t

\* The lines of a WHOIS response; pad says the line is indented.
WhoisLines ==
  {[pad |-> FALSE, pieces |-> <<>>],
   [pad |-> TRUE, pieces |-> <<>>],
   [pad |-> FALSE, pieces |-> <<Piece("", "% note")>>],
   [pad |-> TRUE,
    pieces |-> <<Piece(">>> Last update of WHOIS database", "2020 <<<")>>],
   [pad |-> FALSE, pieces |-> <<Piece("Registrar", "Acme")>>],
   [pad |-> FALSE, pieces |-> <<Piece("registrar", "acme"), Piece("", "inc")>>],
   [pad |-> TRUE, pieces |-> <<Piece("name", "bob")>>],
   [pad |-> FALSE, pieces |-> <<Piece("contact", "c1")>>],
   [pad |-> FALSE, pieces |-> <<Piece("", "junk")>>],
   [pad |-> FALSE, pieces |-> <<Piece("domain", "tens.ten")>>]}

\* The fields of WhoisContact taken up, in the order of the struct.
ContactFields == <<"registrar", "contact", "name">>
FieldSet == {ContactFields[i] : i \in 1..Len(ContactFields)}

\* WhoisContact{}: every field "".
NoContact == [f \in FieldSet |-> <<>>]

IsEmpty(c) == \A f \in FieldSet : c[f] = <<>>

\* strings.ToLower(strings.Trim(scanner.Text(), " \n\r\t"))
CleanLine(raw) ==
  [i \in 1..Len(raw.pieces) |->
     Piece(ToLowerText(raw.pieces[i].key), ToLowerText(raw.pieces[i].text))]

StartsWithPercent(line) == line[1].key = "" /\ line[1].text = "% note"

\* strings.Index(line, ">>> last update of whois database") == 0
StartsWithLastUpdate_never(line) == FALSE

StartsWithLastUpdate(line) ==
  line[1].key = LastUpdate \/ (line[1].key = "" /\ line[1].text = LastUpdate)

setOrAppendString(target, value) ==
  IF target # <<>> THEN target \o value ELSE value

\* One turn of the scanner loop on the parser's state.
scanLine(parser, raw) ==
  LET line == CleanLine(raw)
      finalized == IF ~IsEmpty(parser.contact)
                     THEN Append(parser.contacts, parser.contact)
                     ELSE parser.contacts
  IN  IF line = <<>>
        THEN [parser EXCEPT !.contacts = finalized, !.contact = NoContact]
      ELSE IF StartsWithPercent(line) THEN parser
      ELSE IF StartsWithLastUpdate(line)
        THEN [parser EXCEPT !.contacts = finalized, !.stopped = TRUE]
      ELSE IF \A i \in 1..Len(line) : line[i].key = "" THEN parser
      ELSE IF line[1].key = "" THEN parser
      ELSE LET key == line[1].key
               value == <<Piece("", line[1].text)>> \o Tail(line)
           IN  IF Len(line) = 1 /\ line[1].text = "" THEN parser
               ELSE IF key \in FieldSet
                 THEN [parser EXCEPT
                         !.contact[key] = setOrAppendString(@, value)]
               ELSE parser

\* parseWhoisResponse on a whole text.
RECURSIVE scanAll(_, _)
scanAll(parser, lines) ==
  IF lines = <<>> \/ parser.stopped THEN parser
  ELSE scanAll(scanLine(parser, Head(lines)), Tail(lines))

parseWhoisResponse(lines) ==
  scanAll([contacts |-> <<>>, contact |-> NoContact, stopped |-> FALSE],
          lines).contacts

\* The key WhoisContact.String writes before a field.
EntryKey(f) == IF f = "contact" THEN "c" ELSE f

\* WhoisContact.String: the entries of the fields that are not "", joined
\* by ", ".
RECURSIVE entriesOf(_, _)
entriesOf(c, fields) ==
  IF fields = <<>> THEN <<>>
  ELSE LET f == Head(fields)
       IN  (IF c[f] # <<>>
              THEN <<Piece(EntryKey(f), c[f][1].text)>> \o Tail(c[f])
              ELSE <<>>) \o entriesOf(c, Tail(fields))

String(c) == entriesOf(c, ContactFields)

\* The lines a reader of the text s gives: none for "".
LinesOf(s) == IF s = <<>> THEN <<>> ELSE <<[pad |-> FALSE, pieces |-> s]>>

\* parseWhoisResponse is called on a response.
WhoisStart ==
  /\ whoisCall = NoQuery
  /\ \E lines \in SeqsUpTo(WhoisLines, MaxLines) :
       whoisCall' = [pc |-> "scan", lines |-> lines, at |-> 0,
                     parser |-> [contacts |-> <<>>, contact |-> NoContact,
                                 stopped |-> FALSE],
                     reparsed |-> <<>>]
  /\ UNCHANGED <<besideProbers, dnsCall, httpCall, ctCall, bgpCall, geoCall>>

\* scanner.Scan() gives a line and the loop body runs.
WhoisScan ==
  /\ whoisCall # NoQuery
  /\ whoisCall.pc = "scan"
  /\ whoisCall.at < Len(whoisCall.lines)
  /\ ~whoisCall.parser.stopped
  /\ whoisCall' = [whoisCall EXCEPT
                     !.at = @ + 1,
                     !.parser = scanLine(@, whoisCall.lines[whoisCall.at + 1])]
  /\ UNCHANGED <<besideProbers, dnsCall, httpCall, ctCall, bgpCall, geoCall>>

\* The loop is left, by break or at the end of the text, and contacts
\* returned.
WhoisReturn ==
  /\ whoisCall # NoQuery
  /\ whoisCall.pc = "scan"
  /\ whoisCall.at = Len(whoisCall.lines) \/ whoisCall.parser.stopped
  /\ whoisCall' = [whoisCall EXCEPT !.pc = "returned"]
  /\ UNCHANGED <<besideProbers, dnsCall, httpCall, ctCall, bgpCall, geoCall>>

\* Each contact returned is written out with String and the text parsed.
WhoisReparse ==
  /\ whoisCall # NoQuery
  /\ whoisCall.pc = "returned"
  /\ whoisCall' =
       [whoisCall EXCEPT
          !.pc = "reparsed",
          !.reparsed =
             [i \in 1..Len(whoisCall.parser.contacts) |->
                parseWhoisResponse(LinesOf(String(whoisCall.parser.contacts[i])))]]
  /\ UNCHANGED <<besideProbers, dnsCall, httpCall, ctCall, bgpCall, geoCall>>

WhoisNext == WhoisStart \/ WhoisScan \/ WhoisReturn \/ WhoisReparse

WhoisSpec == AloneInit /\ [][WhoisNext]_vars

\* The line, trimmed and lower-cased, begins with the last-update marker.
BeginsLastUpdate(raw) ==
  /\ raw.pieces # <<>>
  /\ \/ ToLowerText(raw.pieces[1].key) = LastUpdate
     \/ raw.pieces[1].key = "" /\ ToLowerText(raw.pieces[1].text) = LastUpdate

\* C22: the scan of the first line that begins with the last-update marker
\* adds the contact under construction to the contacts if it is not empty
\* and stops the parser; no line is scanned after it and the contacts stay
\* what they are.
C22_StopsAtLastUpdate ==
  /\ [][(/\ whoisCall # NoQuery
          /\ whoisCall.pc = "scan"
          /\ whoisCall'.at = whoisCall.at + 1
          /\ BeginsLastUpdate(whoisCall.lines[whoisCall.at + 1]))
         => /\ whoisCall'.parser.stopped
            /\ whoisCall'.parser.contacts =
                 IF IsEmpty(whoisCall.parser.contact)
                   THEN whoisCall.parser.contacts
                   ELSE Append(whoisCall.parser.contacts,
                               whoisCall.parser.contact)]_vars
  /\ [][(whoisCall # NoQuery /\ whoisCall.at > 0
          /\ BeginsLastUpdate(whoisCall.lines[whoisCall.at]))
         => /\ whoisCall'.at = whoisCall.at
            /\ whoisCall'.lines = whoisCall.lines
            /\ whoisCall'.parser.contacts = whoisCall.parser.contacts]_vars

\* A contact, the marker, then a line that would have added a name.
C22_Witness ==
  /\ whoisCall # NoQuery
  /\ whoisCall.pc = "returned"
  /\ Len(whoisCall.lines) = 3
  /\ BeginsLastUpdate(whoisCall.lines[2])
  /\ whoisCall.lines[3].pieces = <<Piece("name", "bob")>>
  /\ Len(whoisCall.parser.contacts) = 1
  /\ whoisCall.parser.contacts[1]["registrar"] # <<>>
  /\ whoisCall.parser.contacts[1]["name"] = <<>>

\* C23: for every contact the parser returns, parsing the text String
\* gives for it returns that contact and no other.
C23_ParseOfStringIsContact ==
  (whoisCall # NoQuery /\ whoisCall.pc = "reparsed") =>
    \A i \in 1..Len(whoisCall.parser.contacts) :
      whoisCall.reparsed[i] = <<whoisCall.parser.contacts[i]>>

(***************************************************************************)
(* http: HTTPResolution.Domains().  A header value is the sequence of the  *)
(* names the domain pattern matches in it.                                 *)
(***************************************************************************)
MaxHeaders == 2

WwwSub == <<"www", "sub", "tens", "ten">>

HTTPHeader(name, value) == [Name |-> name, Value |-> value]

\* The headers ResolveDomain retains: those that name at least one domain.
RetainedHeaders ==
  {HTTPHeader(name, value) :
     name \in {"content-security-policy", "alt-svc"},
     value \in {<< <<Sub>> >>, << <<Alt, WwwSub>> >>, << <<Sub>>, <<Alt>> >>}}

\* The domains named by the security.txt and the robots.txt of a site.
TxtDomains == {<<>>, <<Sub>>, <<Far>>}

\* dissectDomainsFromString: every match, cleaned.
dissectDomainsFromString(haystack) ==
  [i \in 1..Len(haystack) |-> cleanDomain(haystack[i])]

RECURSIVE dissectDomainsFromStrings(_)
dissectDomainsFromStrings(haystacks) ==
  IF haystacks = <<>> THEN <<>>
  ELSE dissectDomainsFromString(Head(haystacks))
       \o dissectDomainsFromStrings(Tail(haystacks))

\* HTTPResolution.Domains()
RECURSIVE HeaderDomains(_)
HeaderDomains(headers) ==
  IF headers = <<>> THEN <<>>
  ELSE dissectDomainsFromStrings(Head(headers).Value)
       \o HeaderDomains(Tail(headers))

\* ResolveDomain has built the resolution of a site.
HttpResolveDomain ==
  /\ httpCall = NoQuery
  /\ \E headers \in SeqsUpTo(RetainedHeaders, MaxHeaders) :
       \E security \in TxtDomains, robots \in TxtDomains :
         /\ \A i, j \in 1..Len(headers) :
              i # j => headers[i].Name # headers[j].Name
         /\ httpCall' = [pc |-> "resolved",
                         Headers |-> headers,
                         securityTxt |-> security,
                         robotsTxt |-> robots,
                         domains |-> <<>>]
  /\ UNCHANGED <<besideProbers, dnsCall, whoisCall, ctCall, bgpCall, geoCall>>

\* Domains() is called on the resolution.
HttpDomains ==
  /\ httpCall # NoQuery
  /\ httpCall.pc = "resolved"
  /\ httpCall' = [httpCall EXCEPT !.pc = "listed",
                                  !.domains = HeaderDomains(httpCall.Headers)]
  /\ UNCHANGED <<besideProbers, dnsCall, whoisCall, ctCall, bgpCall, geoCall>>

HttpNext == HttpResolveDomain \/ HttpDomains

HttpSpec == AloneInit /\ [][HttpNext]_vars

SetOf(s) == {s[i] : i \in 1..Len(s)}

\* C24: Domains() holds the domains of the headers, of security.txt and
\* of robots.txt, and no others, each once.
C24_DomainsIsUnionOnce ==
  (httpCall # NoQuery /\ httpCall.pc = "listed") =>
    /\ SetOf(httpCall.domains) =
         SetOf(HeaderDomains(httpCall.Headers))
           \cup SetOf(httpCall.securityTxt) \cup SetOf(httpCall.robotsTxt)
    /\ \A d \in SetOf(httpCall.domains) : Occurrences(httpCall.domains, d) = 1

(***************************************************************************)
(* ct: CTResolver.  A timestamp is the number of its day: the strings the  *)
(* aggregator sends are of one format, and compare as their days do.       *)
(***************************************************************************)
MaxLogs == 3
MaxDay == 3

\* The first day of the window.
ctSince == 2

CtDomains == NsDomains \cup {Alt}

CTLog(id, name, at) == [Id |-> id, NameValue |-> name, LoggedAt |-> at]

RawLogs ==
  {CTLog(id, name, at) : id \in {1, 2}, name \in {Sub, Alt}, at \in 1..MaxDay}

\* What the aggregator answers: nothing that can be read, or a list of logs.
CtFailure == [failed |-> TRUE, rawLogs |-> <<>>]
CtResponses ==
  {CtFailure} \cup
  {[failed |-> FALSE, rawLogs |-> logs] : logs \in SeqsUpTo(RawLogs, MaxLogs)}

\* The responses of the calls made one after another.
CtShortResponses ==
  {CtFailure, [failed |-> FALSE, rawLogs |-> <<>>],
   [failed |-> FALSE, rawLogs |-> <<CTLog(1, Sub, MaxDay)>>]}

\* Mutant: logs of any day are taken.
inWindow_always(log) == TRUE

\* !(log.LoggedAt < ctSince)
inWindow(log) == ~(log.LoggedAt < ctSince)

\* Mutant: the log of the entry is kept when LastSeen moves.
widen_keepsLog(entry, log) ==
  LET first == IF entry.FirstSeen > log.LoggedAt
                 THEN [entry EXCEPT !.FirstSeen = log.LoggedAt]
                 ELSE entry
  IN  IF first.LastSeen < log.LoggedAt
        THEN [first EXCEPT !.LastSeen = log.LoggedAt]
        ELSE first

\* The update of an entry by one more log of its name.
widen(entry, log) ==
  LET first == IF entry.FirstSeen > log.LoggedAt
                 THEN [entry EXCEPT !.FirstSeen = log.LoggedAt]
                 ELSE entry
  IN  IF first.LastSeen < log.LoggedAt
        THEN [first EXCEPT !.LastSeen = log.LoggedAt, !.CTLog = log]
        ELSE first

\* The loop over rawLogs on aggregatedLogs, a map from names to entries
\* (NoQuery where the map has none).
RECURSIVE aggregate(_, _)
aggregate(aggregatedLogs, rawLogs) ==
  IF rawLogs = <<>> THEN aggregatedLogs
  ELSE LET log == Head(rawLogs)
           name == log.NameValue
       IN  IF ~inWindow(log) THEN aggregate(aggregatedLogs, Tail(rawLogs))
           ELSE IF aggregatedLogs[name] = NoQuery
             THEN aggregate([aggregatedLogs EXCEPT ![name] =
                               [CTLog |-> log, FirstSeen |-> log.LoggedAt,
                                LastSeen |-> log.LoggedAt]],
                            Tail(rawLogs))
           ELSE aggregate([aggregatedLogs EXCEPT ![name] = widen(@, log)],
                          Tail(rawLogs))

\* The orders a range over the keys of a map may take.
KeyOrders(keys) ==
  {order \in [1..Cardinality(keys) -> keys] :
     \A i, j \in 1..Cardinality(keys) : i # j => order[i] # order[j]}

\* fetchLogs: the lists it may return for a response.
fetchLogs(response) ==
  IF response.failed THEN {<<>>}
  ELSE LET aggregatedLogs ==
             aggregate([name \in {Sub, Alt} |-> NoQuery], response.rawLogs)
           keys == {name \in {Sub, Alt} : aggregatedLogs[name] # NoQuery}
       IN  {[i \in 1..Cardinality(keys) |-> aggregatedLogs[order[i]]] :
              order \in KeyOrders(keys)}

\* Mutant: only the domain itself is looked up.
cacheLookup_exactOnly(cachedResults, domain) == cachedResults[domain]

\* cacheLookup: the cached resolution of the domain or of its nearest
\* cached ancestor, NoQuery (nil) if there is none.
RECURSIVE cacheLookup(_, _)
cacheLookup(cachedResults, domain) ==
  IF domain = EmptyString THEN NoQuery
  ELSE IF cachedResults[domain] # NoQuery THEN cachedResults[domain]
  ELSE cacheLookup(cachedResults, parentDomainOf(domain))

\* NewCTResolver: cachedResults is empty.
NewCTResolver ==
  [cachedResults |-> [d \in CtDomains |-> NoQuery],
   resolved |-> {}, before |-> {}, domain |-> NoQuery, fetched |-> FALSE,
   response |-> NoQuery, Logs |-> <<>>]

CTResolver == IF ctCall = NoQuery THEN NewCTResolver ELSE ctCall

\* ResolveDomain(domain) when the aggregator, if asked, gives the response.
CtResolveDomain(domain, response) ==
  LET resolver == CTResolver
  IN  /\ IF cacheLookup(resolver.cachedResults, domain) # NoQuery
           THEN ctCall' = [resolver EXCEPT
                             !.before = resolver.resolved,
                             !.resolved = @ \cup {domain},
                             !.domain = domain,
                             !.fetched = FALSE,
                             !.response = NoQuery,
                             !.Logs = <<>>]
           ELSE \E logs \in fetchLogs(response) :
                  ctCall' = [resolver EXCEPT
                               !.cachedResults[domain] =
                                  [query |-> domain, Logs |-> logs],
                               !.before = resolver.resolved,
                               !.resolved = @ \cup {domain},
                               !.domain = domain,
                               !.fetched = TRUE,
                               !.response = response,
                               !.Logs = logs]
      /\ UNCHANGED <<besideProbers, dnsCall, whoisCall, httpCall, bgpCall,
                     geoCall>>

\* Calls made one after another on one resolver.
CtNext ==
  \E domain \in CtDomains, response \in CtShortResponses :
    CtResolveDomain(domain, response)

CtSpec == AloneInit /\ [][CtNext]_vars

\* The first call on a resolver, for any response.
CtFirstNext ==
  /\ ctCall = NoQuery
  /\ \E response \in CtResponses : CtResolveDomain(Ten, response)

CtFirstSpec == AloneInit /\ [][CtFirstNext]_vars

\* The domain and what repeated parentDomainOf reaches from it.
RECURSIVE UpFrom(_)
UpFrom(d) ==
  IF d = EmptyString THEN {} ELSE {d} \cup UpFrom(parentDomainOf(d))

\* C25: a call for a domain from which a domain resolved before is reached
\* by parentDomainOf (the domain itself included) asks the aggregator
\* nothing and returns no log.
C25_ResolvedAncestorIsHit ==
  (ctCall # NoQuery /\ ctCall.before \cap UpFrom(ctCall.domain) # {}) =>
    ~ctCall.fetched /\ ctCall.Logs = <<>>

\* A call for deep.all.tens.ten after one for tens.ten that brought a log.
C25_Witness ==
  /\ ctCall # NoQuery
  /\ ctCall.domain = Deep
  /\ ctCall.before = {<<"tens", "ten">>}
  /\ ctCall.cachedResults[<<"tens", "ten">>] # NoQuery
  /\ ctCall.cachedResults[<<"tens", "ten">>].Logs # <<>>
  /\ ~ctCall.fetched

\* The logs of the response that are of the name and in the window.
InWindowOf(name) ==
  {k \in 1..Len(ctCall.response.rawLogs) :
     /\ ctCall.response.rawLogs[k].NameValue = name
     /\ ctCall.response.rawLogs[k].LoggedAt >= ctSince}

Fetched == ctCall # NoQuery /\ ctCall.fetched /\ ~ctCall.response.failed

\* C26: the list returned holds one entry for every name that a log of the
\* window has and none for any other name, and nothing in an entry comes
\* from a log older than since.
C26_OneEntryPerNameInWindow ==
  Fetched =>
    /\ \A name \in {Sub, Alt} :
         Cardinality({i \in 1..Len(ctCall.Logs) :
                        ctCall.Logs[i].CTLog.NameValue = name}) =
           IF InWindowOf(name) # {} THEN 1 ELSE 0
    /\ \A i \in 1..Len(ctCall.Logs) :
         /\ ctCall.Logs[i].FirstSeen >= ctSince
         /\ ctCall.Logs[i].CTLog.LoggedAt >= ctSince

\* Two logs of one name in the window and an older log of another name.
C26_Witness ==
  /\ Fetched
  /\ Len(ctCall.response.rawLogs) = 3
  /\ Cardinality(InWindowOf(Sub)) = 2
  /\ InWindowOf(Alt) = {}
  /\ Len(ctCall.Logs) = 1

\* C27: FirstSeen is the least and LastSeen the greatest timestamp of the
\* logs of the window that have the entry's name, and the log kept in the
\* entry is one of them whose timestamp is LastSeen.
C27_FirstMinLastMax ==
  Fetched =>
    \A i \in 1..Len(ctCall.Logs) :
      LET a == ctCall.Logs[i]
          mine == InWindowOf(a.CTLog.NameValue)
          at(k) == ctCall.response.rawLogs[k].LoggedAt
      IN  /\ mine # {}
          /\ \E k \in mine : at(k) = a.FirstSeen
          /\ \A k \in mine : a.FirstSeen <= at(k)
          /\ \E k \in mine : at(k) = a.LastSeen
          /\ \A k \in mine : at(k) <= a.LastSeen
          /\ a.FirstSeen <= a.LastSeen
          /\ \E k \in mine : ctCall.response.rawLogs[k] = a.CTLog
          /\ a.CTLog.LoggedAt = a.LastSeen

\* The older log of a name comes first, the newer one second.
C27_Witness ==
  /\ Fetched
  /\ ctCall.response.rawLogs = <<CTLog(1, Sub, 2), CTLog(2, Sub, 3)>>
  /\ Len(ctCall.Logs) = 1
  /\ ctCall.Logs[1].FirstSeen = 2
  /\ ctCall.Logs[1].LastSeen = 3
  /\ ctCall.Logs[1].CTLog.Id = 2

(***************************************************************************)
(* bgp: BGPResolver.  A TXT string is the text of an ASN record, the text  *)
(* of an AS record or some other text.                                     *)
(***************************************************************************)
MaxTxt == 2

BgpIPs == {IPa, IPv6a, BadIP}

\* A decimal number, written as hi * 65536 + lo with lo < 65536: the ASNs
\* of interest do not fit the integers of the model checker.
Number(hi, lo) == [hi |-> hi, lo |-> lo]

\* A TXT string: the pattern it matches and its groups.
TxtString(kind, number, prefix, registry, allocated) ==
  [kind |-> kind, number |-> number, prefix |-> prefix,
   registry |-> registry, allocated |-> allocated]

\* "13335 | 104.28.16.0/20 | US | arin | 2014-03-28", the same with a
\* number that does not fit 32 bits, and a text the pattern does not match.
AsnText ==
  TxtString("asn", Number(0, 13335), "104.28.16.0/20", "arin", "2014-03-28")
BigAsnText ==
  TxtString("asn", Number(1525878, 59391), "104.28.16.0/20", "arin",
            "2014-03-28")
OtherText == TxtString("other", Number(0, 0), "", "", "")
\* "13335 | US | arin | 2010-07-14 | CLOUDFLARENET, US"
AsText == TxtString("as", Number(0, 13335), "", "arin", "2010-07-14")
\* ""
NoText == TxtString("", Number(0, 0), "", "", "")

\* What queryOneCallback returns for a TXT query: an error or the strings
\* of the TXT records of the answer.
TxtError(text) == [err |-> text, txt |-> <<>>]
TxtAnswer(txt) == [err |-> "", txt |-> txt]

OriginReplies ==
  {TxtError("NXDOMAIN"), TxtError("timeout")} \cup
  {TxtAnswer(txt) : txt \in SeqsUpTo({AsnText, BigAsnText, OtherText}, MaxTxt)}

AsReplies ==
  {TxtError("NXDOMAIN"), TxtAnswer(<<>>), TxtAnswer(<<AsText>>),
   TxtAnswer(<<OtherText>>)}

\* lookupASN: the strings found and the number of queries issued.
lookupASN(ip, reply) ==
  IF ParseIP(ip) = "nil" THEN [asnRecords |-> <<>>, asked |-> 0]
  ELSE IF reply.err # "" THEN [asnRecords |-> <<>>, asked |-> 1]
  ELSE [asnRecords |-> reply.txt, asked |-> 1]

\* lookupAS: the first string of the first record, "" if there is none.
lookupAS(reply) ==
  IF reply.err # "" THEN NoText
  ELSE IF reply.txt = <<>> THEN NoText
  ELSE reply.txt[1]

\* The largest hi of a number that fits int32 (2147483647 = 32767 * 65536
\* + 65535) and of one that fits uint32.
MaxInt32Hi == 32767
MaxUint32Hi == 65535

\* strconv.ParseInt(groups[1], 10, 32) of a string of digits: a range
\* error when the value does not fit a signed integer of 32 bits.
ParseInt32(number) ==
  [err |-> number.hi > MaxInt32Hi, value |-> number]

\* uint32(asn)
Uint32(number) == Number(number.hi % (MaxUint32Hi + 1), number.lo)

\* parseASNRecord: NoQuery (nil) unless the pattern matches and the number
\* fits.
parseASNRecord(asnRecord) ==
  IF asnRecord.kind # "asn" THEN NoQuery
  ELSE LET asn == ParseInt32(asnRecord.number)
       IN  IF asn.err THEN NoQuery
           ELSE [ASN |-> Uint32(asn.value), Name |-> "",
                 BGPPrefix |-> asnRecord.prefix,
                 Registry |-> asnRecord.registry,
                 Allocated |-> asnRecord.allocated]

parseASName(asRecord) ==
  IF asRecord.kind # "as" THEN "" ELSE "CLOUDFLARENET, US"

\* The loop of ResolveIP over the results of lookupASN; asReplies are what
\* the AS queries return, in the order they are issued.
RECURSIVE asRecordsOf(_, _)
asRecordsOf(results, asReplies) ==
  IF results = <<>> THEN [Records |-> <<>>, asked |-> 0]
  ELSE LET asRecord == parseASNRecord(Head(results))
       IN  IF asRecord = NoQuery THEN asRecordsOf(Tail(results), asReplies)
           ELSE LET rest == asRecordsOf(Tail(results), Tail(asReplies))
                    named == [asRecord EXCEPT
                                !.Name = parseASName(lookupAS(Head(asReplies)))]
                IN  [Records |-> <<named>> \o rest.Records,
                     asked |-> 1 + rest.asked]

\* Mutant: only a resolution with records is cached.
cacheResult_ifFound(cachedResults, ip, resolution) ==
  IF resolution.Records = <<>> THEN cachedResults
  ELSE [cachedResults EXCEPT ![ip] = resolution]

\* resolver.cachedResults[ip] = resolution, the resolution being filled
\* through the pointer afterwards.
cacheResult(cachedResults, ip, resolution) ==
  [cachedResults EXCEPT ![ip] = resolution]

\* NewBGPResolver: cachedResults is empty.
NewBGPResolver ==
  [cachedResults |-> [ip \in BgpIPs |-> NoQuery],
   first |-> [ip \in BgpIPs |-> NoQuery],
   before |-> [ip \in BgpIPs |-> NoQuery],
   ip |-> NoQuery, asked |-> 0, Records |-> <<>>]

BGPResolver == IF bgpCall = NoQuery THEN NewBGPResolver ELSE bgpCall

\* Keeps what the first call for an IP returned.
Returned(resolver, ip, records, asked) ==
  [resolver EXCEPT
     !.before = resolver.first,
     !.first[ip] = IF @ = NoQuery THEN [Records |-> records] ELSE @,
     !.ip = ip, !.asked = asked, !.Records = records]

\* One call of ResolveIP.
BgpResolveIP ==
  /\ \E ip \in BgpIPs :
       LET resolver == BGPResolver
       IN  IF resolver.cachedResults[ip] # NoQuery
             THEN bgpCall' = Returned(resolver, ip,
                                      resolver.cachedResults[ip].Records, 0)
             ELSE \E origin \in OriginReplies :
                    \E asReplies \in [1..MaxTxt -> AsReplies] :
                      LET results == lookupASN(ip, origin)
                          records == asRecordsOf(results.asnRecords, asReplies)
                          resolution == [query |-> ip,
                                         Records |-> records.Records]
                      IN  bgpCall' =
                            Returned([resolver EXCEPT
                                        !.cachedResults =
                                           cacheResult(@, ip, resolution)],
                                     ip, records.Records,
                                     results.asked + records.asked)
  /\ UNCHANGED <<besideProbers, dnsCall, whoisCall, httpCall, ctCall, geoCall>>

BgpNext == BgpResolveIP

BgpSpec == AloneInit /\ [][BgpNext]_vars

\* C28: a call for an IP that ResolveIP has returned for before, with
\* records or without, issues no DNS query and returns the records the
\* first call returned.
C28_BgpCachesEveryOutcome ==
  (bgpCall # NoQuery /\ bgpCall.before[bgpCall.ip] # NoQuery) =>
    /\ bgpCall.asked = 0
    /\ bgpCall.Records = bgpCall.before[bgpCall.ip].Records

\* A second call for an IP whose first call had found nothing.
C28_Witness ==
  /\ bgpCall # NoQuery
  /\ bgpCall.ip = IPa
  /\ bgpCall.before[IPa] = [Records |-> <<>>]
  /\ bgpCall.before[BadIP] = [Records |-> <<>>]
  /\ bgpCall.asked = 0
  /\ bgpCall.Records = <<>>

(***************************************************************************)
(* geo: GeoResolver.                                                       *)
(***************************************************************************)
GeoIPs == {IPa, IPb, BadIP}

\* What db.Get_country_short gives: an error or a country.
GeoAnswers == {[err |-> TRUE, Country_short |-> ""],
               [err |-> FALSE, Country_short |-> "US"],
               [err |-> FALSE, Country_short |-> "CZ"]}

GeoRecord(code) == [CountryCode |-> code]

\* NewGeoResolver: ip2location.OpenDB succeeds or fails.
NewGeoResolver ==
  /\ geoCall = NoQuery
  /\ \E opened \in BOOLEAN :
       geoCall' = [enabled |-> opened,
                   db |-> IF opened THEN "db" ELSE "nil",
                   cachedResults |-> [ip \in GeoIPs |-> NoQuery],
                   opened |-> opened,
                   ip |-> NoQuery,
                   returned |-> NoQuery]
  /\ UNCHANGED <<besideProbers, dnsCall, whoisCall, httpCall, ctCall, bgpCall>>

\* Mutant: the database is queried whatever the resolver's state.
disabled_never(resolver) == FALSE

\* !r.enabled || r.db == nil
disabled(resolver) == ~resolver.enabled \/ resolver.db = "nil"

\* One call of ResolveIP.
GeoResolveIP ==
  /\ geoCall # NoQuery
  /\ \E ip \in GeoIPs :
       IF geoCall.cachedResults[ip] # NoQuery
         THEN geoCall' = [geoCall EXCEPT
                            !.ip = ip,
                            !.returned = geoCall.cachedResults[ip]]
       ELSE IF disabled(geoCall)
         THEN LET resolution == [query |-> ip, Record |-> NoQuery]
              IN  geoCall' = [geoCall EXCEPT
                                !.cachedResults[ip] = resolution,
                                !.ip = ip,
                                !.returned = resolution]
       ELSE \E answer \in GeoAnswers :
              LET resolution ==
                    [query |-> ip,
                     Record |-> IF answer.err THEN NoQuery
                                ELSE GeoRecord(answer.Country_short)]
              IN  geoCall' = [geoCall EXCEPT
                                !.cachedResults[ip] = resolution,
                                !.ip = ip,
                                !.returned = resolution]
  /\ UNCHANGED <<besideProbers, dnsCall, whoisCall, httpCall, ctCall, bgpCall>>

GeoNext == NewGeoResolver \/ GeoResolveIP

GeoSpec == AloneInit /\ [][GeoNext]_vars

\* C29: a resolver whose database could not be opened is disabled and stays
\* so, and every call on it, for any IP, returns a resolution without
\* record.
C29_FailedOpenDisablesForGood ==
  /\ [](geoCall # NoQuery /\ ~geoCall.opened =>
          /\ ~geoCall.enabled
          /\ geoCall.returned # NoQuery => geoCall.returned.Record = NoQuery)
  /\ [][(geoCall # NoQuery /\ ~geoCall.enabled) => ~geoCall'.enabled]_vars

\* Calls for two IPs on a resolver whose database did not open.
C29_Witness ==
  /\ geoCall # NoQuery
  /\ ~geoCall.opened
  /\ geoCall.cachedResults[IPa] # NoQuery
  /\ geoCall.cachedResults[IPb] # NoQuery
  /\ geoCall.ip = IPa
  /\ geoCall.returned.Record = NoQuery


(***************************************************************************)
(* Which discovered domains the engine enqueues.                           *)
(***************************************************************************)
\* The domains to enqueue when a discovered domain is enqueued iff it is
\* not processed, was never enqueued (the seed included) and
\* isCnameOrRelated holds for it and the resolution it was discovered in.
RECURSIVE enqueuedIff(_, _, _, _)
enqueuedIff(found, processedNow, everEnqueued, domains) ==
  IF found = <<>> THEN domains
  ELSE LET f == Head(found)
       IN  IF /\ f.nextDomain \notin processedNow
              /\ f.nextDomain \notin everEnqueued
              /\ isCnameOrRelated(f.nextDomain, f.resolution)
             THEN enqueuedIff(Tail(found), processedNow,
                              everEnqueued \cup {f.nextDomain},
                              Append(domains, f.nextDomain))
           ELSE enqueuedIff(Tail(found), processedNow, everEnqueued, domains)

C31_EnqueuedAtMostOnce ==
  \A i \in 1..Len(enqueued) : \A j \in 1..Len(enqueued) :
    i # j => enqueued[i] # enqueued[j]

\* Two resolvers called for the same query reported the same domain, which
\* was then sent on domainQueue.
C31_Witness ==
  \E j \in Indices(resolutions) : \E k \in Indices(resolutions) :
    /\ j < k
    /\ resolutions[j].query = resolutions[k].query
    /\ \E d \in SetOf(enqueued) :
         /\ d # enqueued[1]
         /\ Lists(resolutions[j], d)
         /\ Lists(resolutions[k], d)


C33_NeverBlockedOnFullQueue ==
  /\ ~(pc = "enqueueDomains" /\ Room(domainQueue, pending) = 0)
  /\ ~(pc = "enqueueIps" /\ Room(ipQueue, pending) = 0)


(***************************************************************************)
(* bgp: ResolveIP of one BGPResolver called from several goroutines.  The  *)
(* resolver has no lock.  A read or a write of the map cachedResults takes *)
(* time: a goroutine is inside it from its start to its end.  A write that *)
(* overlaps another access is a data race, which the Go runtime may stop   *)
(* with a fatal error ("concurrent map writes", "concurrent map read and   *)
(* map write") or may let pass.                                            *)
(***************************************************************************)
MaxGoroutines == 2

Goroutines == 1..MaxGoroutines
SharedIPs == {IPa, IPb}

\* The resolver NewBGPResolver returns, no goroutine calling it.
SharedBGPResolver ==
  [cachedResults |-> [ip \in SharedIPs |-> NoQuery],
   at |-> [g \in Goroutines |-> "idle"],
   ip |-> [g \in Goroutines |-> NoQuery],
   returned |-> [g \in Goroutines |-> NoQuery],
   thrown |-> FALSE]

Sharing == IF concurrent = NoQuery THEN SharedBGPResolver ELSE concurrent

InMap(resolver, g) == resolver.at[g] \in {"read", "write"}

\* Goroutine g, starting an access of the given kind, races with another.
Races(resolver, g, kind) ==
  \E h \in Goroutines \ {g} :
    /\ InMap(resolver, h)
    /\ kind = "write" \/ resolver.at[h] = "write"

\* What the runtime may do when g starts an access: go on, or throw if the
\* access races.
Outcomes(resolver, g, kind) ==
  IF Races(resolver, g, kind) THEN BOOLEAN ELSE {FALSE}

\* ResolveIP(ip) is called: resolution := resolver.cachedResults[ip] starts.
BgpCall(g) ==
  LET resolver == Sharing
  IN  /\ ~resolver.thrown
      /\ resolver.at[g] = "idle"
      /\ \E ip \in SharedIPs : \E thrown \in Outcomes(resolver, g, "read") :
           concurrent' = [resolver EXCEPT !.at[g] = "read", !.ip[g] = ip,
                                          !.returned[g] = NoQuery,
                                          !.thrown = thrown]
      /\ UNCHANGED besideConcurrent

\* The read ends.  On a hit ResolveIP returns the cached resolution; on a
\* miss it makes a new one and resolver.cachedResults[ip] = resolution
\* starts.
BgpCacheRead(g) ==
  LET resolver == Sharing
      entry == resolver.cachedResults[resolver.ip[g]]
  IN  /\ ~resolver.thrown
      /\ resolver.at[g] = "read"
      /\ IF entry # NoQuery
           THEN concurrent' = [resolver EXCEPT !.at[g] = "idle",
                                               !.returned[g] = entry]
           ELSE \E thrown \in Outcomes(resolver, g, "write") :
                  concurrent' = [resolver EXCEPT !.at[g] = "write",
                                                 !.thrown = thrown]
      /\ UNCHANGED besideConcurrent

\* The write ends: the map holds the resolution of g.
BgpCacheWrite(g) ==
  LET resolver == Sharing
      resolution == [query |-> resolver.ip[g], by |-> g]
  IN  /\ ~resolver.thrown
      /\ resolver.at[g] = "write"
      /\ concurrent' = [resolver EXCEPT
                          !.at[g] = "lookup",
                          !.cachedResults[resolver.ip[g]] = resolution]
      /\ UNCHANGED besideConcurrent

\* lookupASN and the loop over its results, then the return.
BgpLookup(g) ==
  LET resolver == Sharing
  IN  /\ ~resolver.thrown
      /\ resolver.at[g] = "lookup"
      /\ concurrent' = [resolver EXCEPT
                          !.at[g] = "idle",
                          !.returned[g] = [query |-> resolver.ip[g], by |-> g]]
      /\ UNCHANGED besideConcurrent

SharedNext ==
  \E g \in Goroutines :
    BgpCall(g) \/ BgpCacheRead(g) \/ BgpCacheWrite(g) \/ BgpLookup(g)

SharedSpec == AloneInit /\ [][SharedNext]_vars

\* C35: the cache of a prober is accessed only under that prober's own
\* mutex, so no two concurrent calls of the same prober are inside an
\* access of its cache map at the same time; in particular no write of the
\* map overlaps another access, and no call is stopped by the runtime.
C35_CacheAccessesExclusive ==
  concurrent # NoQuery =>
    /\ \A g \in Goroutines : \A h \in Goroutines :
         (g # h /\ InMap(concurrent, g) /\ InMap(concurrent, h)) =>
           (concurrent.at[g] = "read" /\ concurrent.at[h] = "read")
    /\ ~concurrent.thrown


\* C36: domains reported by the results of IP resolvers (PTR hostnames) are
\* never sent on domainQueue: every domain sent but the seed is listed by
\* the result of a domain resolver, and once the result of an IP resolver
\* is stored nothing more is sent.
C36_IpResultsFeedNoDomain ==
  /\ [](\A e \in 2..Len(enqueued) :
          \E j \in Indices(resolutions) :
            /\ IsDomainResolution(resolutions[j])
            /\ Lists(resolutions[j], enqueued[e]))
  /\ [][(\E j \in Indices(resolutions') :
           ~IsDomainResolution(resolutions'[j]))
        => /\ enqueued' = enqueued
           /\ domainQueue' = domainQueue]_vars

\* The session has ended, a PTR result reports a hostname related to the
\* seed, and the hostname was never sent on domainQueue.
C36_Witness ==
  /\ pc = "done"
  /\ \E j \in Indices(resolutions) :
       /\ resolutions[j].type = "PTR"
       /\ Lists(resolutions[j], Deep)
       /\ IsDomainRelated(Deep, enqueued[1])
  /\ Deep \notin SetOf(enqueued)
  /\ Deep \notin processed


(***************************************************************************)
(* The engine with a registered resolver of the caller's own whose         *)
(* resolutions say Type() = TypeDNS.                                       *)
(***************************************************************************)
MaskRegistries == {<<"MASK">>, <<"MASK", "HTTP">>, <<"DNS">>}

MaskInit ==
  /\ domainResolvers \in MaskRegistries
  /\ ipResolvers \in IPRegistries
  /\ strict \in BOOLEAN
  /\ maxDepth = -1
  /\ EngineNew
  /\ StreamNew
  /\ ApartNew

MaskSpec == MaskInit /\ [][Next]_vars

\* C37: the relatedness check of the engine never panics for a Resolution
\* returned by a registered prober: a result whose Type() is DNS but which
\* is not a DNSResolution is handled by falling back to the relatedness
\* predicate.
C37_RelatednessCheckNeverPanics == pc # "panicked"


(***************************************************************************)
(* bgp: parseASNRecord applied to the strings a TXT answer may hold.       *)
(***************************************************************************)
\* 0, 13335, 65535, 65536, 2147483647, 2147483648, 4200000000, 4294967295,
\* 4294967296 and 99999999999.
AsnNumbers ==
  {Number(0, 0), Number(0, 13335), Number(0, 65535), Number(1, 0),
   Number(32767, 65535), Number(32768, 0), Number(64086, 59904),
   Number(65535, 65535), Number(65536, 0), Number(1525878, 59391)}

AsnTexts ==
  {TxtString("asn", number, prefix, registry, allocated) :
     number \in AsnNumbers, prefix \in {"104.28.16.0/20", "2606:4700::/32"},
     registry \in {"arin", "ripencc", "apnic"},
     allocated \in {"2014-03-28", "NA"}}
  \cup {OtherText, AsText, NoText}

\* One call of parseASNRecord.
ParseASNRecord ==
  /\ \E text \in AsnTexts :
       bgpCall' = [asnRecord |-> text, parsed |-> parseASNRecord(text)]
  /\ UNCHANGED <<besideProbers, dnsCall, whoisCall, httpCall, ctCall, geoCall>>

AsnNext == ParseASNRecord

AsnSpec == AloneInit /\ [][AsnNext]_vars

FitsUint32(number) == number.hi <= MaxUint32Hi

\* C38: parseASNRecord accepts every ASN that fits an unsigned integer of
\* 32 bits (0 to 4294967295): for a well-formed record whose ASN field is
\* in that range it returns a record whose ASN is the numeric value of the
\* field, neither rejected nor truncated.
C38_AcceptsEveryUint32Asn ==
  (/\ bgpCall # NoQuery
   /\ bgpCall.asnRecord.kind = "asn"
   /\ FitsUint32(bgpCall.asnRecord.number))
  => /\ bgpCall.parsed # NoQuery
     /\ bgpCall.parsed.ASN = bgpCall.asnRecord.number


\* C39: every recognized "key: value" line read before parsing ends is
\* represented in some output contact: when the scanner loop is left at the
\* end of the input (no blank line and no last-update line after the last
\* recognized line), the contact under construction, if it is not empty, is
\* the last of the contacts returned.
C39_LastContactReturned ==
  [][(/\ whoisCall # NoQuery
      /\ whoisCall.pc = "scan"
      /\ whoisCall'.pc = "returned"
      /\ ~whoisCall.parser.stopped
      /\ ~IsEmpty(whoisCall.parser.contact))
     => whoisCall'.parser.contacts =
          Append(whoisCall.parser.contacts, whoisCall.parser.contact)]_vars

====
